---- MODULE Spec2Model ----
(***************************************************************************)
(* Status-check scheduling and incident lifecycle engine of the            *)
(* down-detector repository: the check-status route (POST/GET), the        *)
(* force/[secret] route, checkServiceStatus, and the tables of schema.sql. *)
(*                                                                         *)
(* Every await of the handler is one step: the statement runs at the       *)
(* database (or the network call returns) and the synchronous JavaScript   *)
(* that follows runs up to the next await.  Two invocations of the handler *)
(* share nothing but the database.                                         *)
(***************************************************************************)
EXTENDS Integers, Sequences, FiniteSets, TLC

(***************************************************************************)
(* Bounds of the model.                                                    *)
(***************************************************************************)
MaxRuns == 2              \* authorised cycle invocations, overlapping triggers
MaxSeqRuns == 3           \* authorised cycle invocations, serial triggers
MaxNow == 420             \* the clock runs from 0 to MaxNow seconds
NumSchedServices == 2     \* rows of services in the scheduler specification
NumPoolServices == 6      \* rows of services in the pool specification
MaxDays == 2              \* days that pass in the retention specification
MaxListRows == 2          \* rows of a table in the listing specification
MaxServices == 3          \* rows of services in the creation specification

(***************************************************************************)
(* Program constants.                                                      *)
(***************************************************************************)
poolSize == 5                     \* check-status route, const poolSize
DefaultCheckInterval == 420       \* schema.sql, services.check_interval
ApiCheckInterval == 300           \* services route, check_interval || 300
SlowThresholdMs_Lower == 2500 - 1   \* Mutant: a response is slow from 2500 ms on.
SlowThresholdMs == 2500           \* classify, latencyMs > 2500
RetentionSeconds == 2592000       \* cleanup_old_status_checks, 30 days
Day == 86400                      \* seconds of a day

\* SQL NULL / JS null, JS undefined, and a null for integer columns.
NULL == "<null>"
UNDEFINED == "<undefined>"
NULL_INT == 0 - 1

\* The two invocation slots: cycles that may overlap in time.
CycleIds == {"c1", "c2"}

VARIABLES
    env,               \* process.env: CRON_SECRET, and whether Supabase is configured
    net,               \* the outcomes (GET, HEAD) a fetch of a target's url may have
    fetches,           \* the methods of the fetch calls issued by the probe of the fetch specification
    http,              \* the last request answered outside the check-status routes
    now,               \* NOW() / CURRENT_TIMESTAMP, in seconds
    services,          \* table services: id -> row
    templates,         \* table announcement_reason_templates
    status_checks,     \* table status_checks
    incidents,         \* table incidents
    incident_updates,  \* table incident_updates
    announcement_reasons, \* table announcement_reasons
    seq,               \* the SERIAL sequences of the tables
    cyc,               \* per invocation: position, force, services, i, collected, results, response
    wk,                \* per invocation: its workers (position and locals)
    runsLeft,          \* authorised invocations still allowed
    overlap            \* TRUE while the external triggers may overlap in time

vars == <<env, net, fetches, http, now, services, templates, status_checks, incidents,
          incident_updates, announcement_reasons, seq, cyc, wk, runsLeft, overlap>>

tables == <<incidents, incident_updates, announcement_reasons>>

(***************************************************************************)
(* Small helpers.                                                          *)
(***************************************************************************)
\* Mutant: the pool has one worker per selected service.
Min_Second(a, b) == b

\* Math.min
Min(a, b) == IF a <= b THEN a ELSE b

SetMax(S) == CHOOSE x \in S : \A y \in S : y <= x

Range(s) == {s[k] : k \in 1..Len(s)}

\* All orderings of a finite set, as sequences without repetition.
Orderings(S) ==
    {s \in [1..Cardinality(S) -> S] : \A a, b \in 1..Cardinality(S) : a # b => s[a] # s[b]}

\* JS truthiness of a string-or-null value.
Truthy(v) == v # NULL /\ v # UNDEFINED /\ v # ""

\* String.prototype.includes
Includes(s, sub) ==
    \E k \in 1..(Len(s) - Len(sub) + 1) : SubSeq(s, k, k + Len(sub) - 1) = sub

UpperChars == "ABCDEFGHIJKLMNOPQRSTUVWXYZ"
LowerChars == "abcdefghijklmnopqrstuvwxyz"

\* The lower-case letter of each upper-case letter.
LowerOf ==
    [ch \in {SubSeq(UpperChars, k, k) : k \in 1..Len(UpperChars)} |->
       LET k == CHOOSE j \in 1..Len(UpperChars) : SubSeq(UpperChars, j, j) = ch
       IN  SubSeq(LowerChars, k, k)]

LowerChar(ch) == IF ch \in DOMAIN LowerOf THEN LowerOf[ch] ELSE ch

RECURSIVE toLowerCase(_)
toLowerCase(s) ==
    IF Len(s) = 0 THEN ""
    ELSE LowerChar(SubSeq(s, 1, 1)) \o toLowerCase(SubSeq(s, 2, Len(s)))

(***************************************************************************)
(* Prober: lib/status-utils.ts, checkServiceStatus.                        *)
(* A fetch either resolves with an HTTP status after ms milliseconds or    *)
(* rejects with an error (name, message) after ms milliseconds.            *)
(***************************************************************************)
FetchOk(code, ms) ==
    [ok |-> TRUE, status |-> code, ms |-> ms, name |-> "", message |-> ""]

FetchErr(name, message, ms) ==
    [ok |-> FALSE, status |-> 0, ms |-> ms, name |-> name, message |-> message]

classify(statusCode, latencyMs) ==
    IF statusCode >= 200 /\ statusCode < 300
    THEN [status  |-> IF latencyMs > SlowThresholdMs THEN "degraded" ELSE "operational",
          message |-> IF latencyMs > SlowThresholdMs THEN "Slow response" ELSE NULL]
    ELSE IF statusCode = 401 \/ statusCode = 403
    THEN [status |-> "operational", message |-> NULL]
    ELSE IF statusCode = 429
    THEN [status |-> "degraded", message |-> "Rate limited (429)"]
    ELSE IF statusCode = 404
    THEN [status |-> "degraded", message |-> "Page not found (404)"]
    ELSE IF statusCode >= 500
    THEN [status |-> "down", message |-> "Server error (" \o ToString(statusCode) \o ")"]
    ELSE IF statusCode >= 400
    THEN [status |-> "degraded", message |-> "Client error (" \o ToString(statusCode) \o ")"]
    ELSE IF statusCode >= 300 /\ statusCode < 400
    THEN [status |-> "operational", message |-> NULL]
    ELSE [status |-> "degraded", message |-> "Unexpected status (" \o ToString(statusCode) \o ")"]

\* Mutant: only a timeout gets a message.
errorMessage_TimeoutOnly(e) ==
    IF e.name = "AbortError" THEN "Request timeout (>10s)" ELSE NULL

\* The message of the catch path, from the error of the GET attempt.
errorMessage(e) ==
    IF e.name = "AbortError" THEN "Request timeout (>10s)"
    ELSE IF Includes(e.message, "ENOTFOUND") THEN "Domain not found (DNS error)"
    ELSE IF Includes(e.message, "ECONNREFUSED") THEN "Connection refused"
    ELSE IF Truthy(e.message) THEN e.message
    ELSE "Connection failed"

\* Mutant: when both attempts fail the target is reported 'degraded'.
checkServiceStatus_FailSoft(get, head) ==
    IF get.ok
    THEN LET c == classify(get.status, get.ms)
         IN  [status |-> c.status, response_time |-> get.ms,
              status_code |-> get.status, error_message |-> c.message]
    ELSE IF head.ok
    THEN LET c == classify(head.status, head.ms)
         IN  [status |-> c.status, response_time |-> head.ms,
              status_code |-> head.status,
              error_message |-> IF Truthy(c.message)
                                THEN "Fallback HEAD: " \o c.message ELSE NULL]
    ELSE [status |-> "degraded",
          response_time |-> IF get.name = "AbortError" THEN NULL_INT ELSE get.ms + head.ms,
          status_code |-> NULL_INT,
          error_message |-> errorMessage(get)]

\* get: the outcome of the GET fetch; head: the outcome of the HEAD fetch,
\* which is issued only when the GET rejected.
checkServiceStatus(get, head) ==
    IF get.ok
    THEN LET c == classify(get.status, get.ms)
         IN  [status |-> c.status, response_time |-> get.ms,
              status_code |-> get.status, error_message |-> c.message]
    ELSE IF head.ok
    THEN LET c == classify(head.status, head.ms)
         IN  [status |-> c.status, response_time |-> head.ms,
              status_code |-> head.status,
              error_message |-> IF Truthy(c.message)
                                THEN "Fallback HEAD: " \o c.message ELSE NULL]
    ELSE [status |-> "down",
          response_time |-> IF get.name = "AbortError" THEN NULL_INT ELSE get.ms + head.ms,
          status_code |-> NULL_INT,
          error_message |-> errorMessage(get)]

\* Network behaviours a target shows in the engine specification:
\* up, slow, and unreachable on both attempts.
NoFetch == FetchErr("", "", 0)
EngineNets ==
    { <<FetchOk(200, 100), NoFetch>>,
      <<FetchOk(200, 3000), NoFetch>>,
      <<FetchErr("TypeError", "connect ECONNREFUSED", 20),
        FetchErr("TypeError", "connect ECONNREFUSED", 20)>> }

(***************************************************************************)
(* Scheduler: the due-services query of the check-status POST handler.     *)
(***************************************************************************)
\* WITH last_check AS (SELECT DISTINCT ON (service_id) service_id, checked_at
\*   FROM status_checks ORDER BY service_id, checked_at DESC)
last_check ==
    { [service_id |-> s, checked_at |-> SetMax({r.checked_at : r \in {x \in status_checks : x.service_id = s}})]
        : s \in {r.service_id : r \in status_checks} }

\* Mutant: `<` instead of `<=` in the due test.
DueQuery_Strict ==
    { s \in DOMAIN services :
        /\ services[s].is_active = TRUE
        /\ \/ ~\E lc \in last_check : lc.service_id = s
           \/ \E lc \in last_check :
                /\ lc.service_id = s
                /\ lc.checked_at < now - services[s].check_interval }

\* FROM services s LEFT JOIN last_check lc ON lc.service_id = s.id
\* WHERE s.is_active = true AND (lc.checked_at IS NULL
\*        OR lc.checked_at <= NOW() - make_interval(secs => s.check_interval))
DueQuery ==
    { s \in DOMAIN services :
        /\ services[s].is_active = TRUE
        /\ \/ ~\E lc \in last_check : lc.service_id = s
           \/ \E lc \in last_check :
                /\ lc.service_id = s
                /\ lc.checked_at <= now - services[s].check_interval }

\* SELECT * FROM services WHERE is_active = true
AllActiveQuery == { s \in DOMAIN services : services[s].is_active = TRUE }

ServicesQuery(force) == IF force THEN AllActiveQuery ELSE DueQuery

(***************************************************************************)
(* Requests to the three trigger routes.                                   *)
(***************************************************************************)
Request(route, authorization, xForceCheck, secret, forceParam) ==
    [route |-> route, authorization |-> authorization, xForceCheck |-> xForceCheck,
     secret |-> secret, forceParam |-> forceParam]

\* Values of the x-force-check header and of the force query parameter.
ForceValues == {NULL, "1", "true", "TRUE", "0"}

\* The requests of the engine specifications: the scheduled POST, a forced
\* POST, and a POST with a wrong secret.
EngineRequests ==
    {Request("POST", "Bearer s3cret", NULL, NULL, NULL),
     Request("POST", "Bearer s3cret", "1", NULL, NULL),
     Request("POST", "Bearer wrong", NULL, NULL, NULL)}

\* The route answered 401 and forwarded nothing.
Rejected == Request("401", NULL, NULL, NULL, NULL)

\* String(x || "").toLowerCase()
LowerOrEmpty(v) == IF Truthy(v) THEN toLowerCase(v) ELSE ""

\* force/[secret] route, GET: the POST request it forwards, or Rejected for 401.
ForceRouteForward(req) ==
    LET expected == IF Truthy(env.CRON_SECRET) THEN env.CRON_SECRET ELSE ""
    IN  IF ~Truthy(expected) \/ req.secret # expected
        THEN Rejected
        ELSE Request("POST", "Bearer " \o expected, "1", NULL, NULL)

\* check-status route, GET: the POST request it forwards, or Rejected for 401.
GetForward(req) ==
    LET forceParam == LowerOrEmpty(req.forceParam)
    IN  IF req.secret # env.CRON_SECRET
        THEN Rejected
        ELSE Request("POST", "Bearer " \o env.CRON_SECRET,
                     IF forceParam = "1" \/ forceParam = "true" THEN "1" ELSE "0",
                     NULL, NULL)

\* The POST request that reaches the POST handler, or Rejected.
Forwarded(req) ==
    IF req.route = "FORCE" THEN ForceRouteForward(req)
    ELSE IF req.route = "GET" THEN GetForward(req)
    ELSE req

\* check-status route, POST: the cron-secret check.
PostAuthorized(req) ==
    ~(Truthy(env.CRON_SECRET) /\ req.authorization # "Bearer " \o env.CRON_SECRET)

\* Mutant: only the literal header value "1" forces.
ForceFlag_OnlyOne(req) == req.xForceCheck = "1"

\* check-status route, POST: the force flag.
ForceFlag(req) ==
    LET forceHeader == LowerOrEmpty(req.xForceCheck)
    IN  forceHeader = "1" \/ forceHeader = "true"


(***************************************************************************)
(* Rows and statements of schema.sql used by the engine.                   *)
(***************************************************************************)
\* Mutant: the incident is opened with severity 'minor' and without the
\* probe's error message.
NewIncident_Minor(id, service_id, name, error_message) ==
    [id          |-> id,
     service_id  |-> service_id,
     title       |-> name \o " is down",
     description |-> "Service is not responding",
     status      |-> "investigating",
     severity    |-> "minor",
     started_at  |-> now,
     resolved_at |-> NULL_INT]

\* INSERT INTO incidents (service_id, title, description, status, severity, started_at)
\* VALUES ($1, `${service.name} is down`, error_message || "Service is not responding",
\*         'investigating', 'major', NOW()) RETURNING id
NewIncident(id, service_id, name, error_message) ==
    [id          |-> id,
     service_id  |-> service_id,
     title       |-> name \o " is down",
     description |-> IF Truthy(error_message) THEN error_message
                     ELSE "Service is not responding",
     status      |-> "investigating",
     severity    |-> "major",
     started_at  |-> now,
     resolved_at |-> NULL_INT]

\* Mutant: only the status the engine itself writes counts as active.
ActiveIncidents_EngineOnly(service_id) ==
    {r \in incidents : r.service_id = service_id /\ r.status = "investigating"}

\* SELECT id FROM incidents WHERE service_id=$1 AND status!='resolved'
ActiveIncidents(service_id) ==
    {r \in incidents : r.service_id = service_id /\ r.status # "resolved"}

\* Mutant: the handler opens an incident without consulting the SELECT.
ActiveSelect_Ignored(service_id) == {}

\* ... ORDER BY started_at DESC LIMIT 1: the ids the query may return.
ActiveSelect(service_id) ==
    {r.id : r \in {a \in ActiveIncidents(service_id) :
                     \A b \in ActiveIncidents(service_id) : b.started_at <= a.started_at}}

\* Mutant: the resolving UPDATE lacks `AND status != 'resolved'`.
ResolveRows_All(service_id) == {r \in incidents : r.service_id = service_id}

\* UPDATE incidents SET status = 'resolved', resolved_at = NOW()
\* WHERE service_id = $1 AND status != 'resolved' RETURNING id
ResolveRows(service_id) == ActiveIncidents(service_id)

\* Mutant: the UPDATE sets the status and leaves resolved_at.
ResolveUpdate_NoTimestamp(service_id) ==
    {IF r \in ResolveRows(service_id)
     THEN [r EXCEPT !.status = "resolved"]
     ELSE r : r \in incidents}

\* The incidents table after that UPDATE.
ResolveUpdate(service_id) ==
    {IF r \in ResolveRows(service_id)
     THEN [r EXCEPT !.status = "resolved", !.resolved_at = now]
     ELSE r : r \in incidents}

\* Mutant: the reasons of the resolved incidents stay.
DeleteReasonsOf_Kept(ids) == announcement_reasons

\* DELETE FROM announcement_reasons WHERE incident_id = ANY($1) and the
\* Supabase client's .delete().in("incident_id", ids)
DeleteReasonsOf(ids) == {r \in announcement_reasons : r.incident_id \notin ids}

\* Mutant: the reason insert is lost.
InsertReasonRow_Dropped(incident_id, service_id, reason) == announcement_reasons

\* INSERT INTO announcement_reasons ... ON CONFLICT (incident_id) DO NOTHING; through
\* the Supabase client the UNIQUE (incident_id) violation comes back as an
\* error object that the handler does not read.
InsertReasonRow(incident_id, service_id, reason) ==
    IF \E r \in announcement_reasons : r.incident_id = incident_id
    THEN announcement_reasons
    ELSE announcement_reasons \cup
           {[incident_id |-> incident_id, service_id |-> service_id,
             reason_code |-> reason.code, reason_text |-> reason.text]}

RestoredMessage == "Service has been restored and is operational"

\* INSERT INTO incident_updates (incident_id, message, status) VALUES (...), ...
\* one row per resolved incident, in the order ord of the RETURNING rows.
InsertUpdateRows(ord) ==
    incident_updates \cup
      {[id |-> seq.incident_updates + k, incident_id |-> ord[k],
        message |-> RestoredMessage, status |-> "resolved"] : k \in 1..Len(ord)}

\* Mutant: the sweep also deletes the rows exactly 30 days old.
cleanup_old_status_checks_Inclusive(rows) ==
    {r \in rows : ~(r.checked_at <= now - RetentionSeconds)}

\* cleanup_old_status_checks(): DELETE FROM status_checks
\* WHERE checked_at < CURRENT_TIMESTAMP - INTERVAL '30 days'
cleanup_old_status_checks(rows) ==
    {r \in rows : ~(r.checked_at < now - RetentionSeconds)}

\* Mutant: the batch holds the first collected result only.
InsertStatusChecks_First(collected) ==
    cleanup_old_status_checks(
      status_checks \cup
        {[id |-> seq.status_checks + k, service_id |-> collected[k].id,
          status |-> collected[k].status, response_time |-> collected[k].response_time,
          status_code |-> collected[k].status_code,
          error_message |-> collected[k].error_message,
          checked_at |-> now] : k \in 1..Min(1, Len(collected))})

\* INSERT INTO status_checks (service_id, status, response_time, status_code,
\* error_message) VALUES ...; checked_at defaults to CURRENT_TIMESTAMP.  The
\* status_checks_retention trigger runs the cleanup after the statement.
InsertStatusChecks(collected) ==
    cleanup_old_status_checks(
      status_checks \cup
        {[id |-> seq.status_checks + k, service_id |-> collected[k].id,
          status |-> collected[k].status, response_time |-> collected[k].response_time,
          status_code |-> collected[k].status_code,
          error_message |-> collected[k].error_message,
          checked_at |-> now] : k \in 1..Len(collected)})

(***************************************************************************)
(* Reason pick: the weighted-random choice of the POST handler.            *)
(***************************************************************************)
\* Mutant: another default reason.
DefaultReason_Unknown == [code |-> "UNKNOWN", text |-> "Unknown"]

\* let reasonCode = "SERVER"; let reasonText = "Server maintenance or outage"
DefaultReason == [code |-> "SERVER", text |-> "Server maintenance or outage"]

\* Math.max(1, Number(t.weight) || 1)
Slots(t) == IF t.weight = NULL_INT \/ t.weight = 0 \/ t.weight < 1 THEN 1 ELSE t.weight

RECURSIVE Expand(_)
Expand(ts) ==
    IF Len(ts) = 0 THEN <<>>
    ELSE [k \in 1..Slots(ts[1]) |-> [code |-> ts[1].code, text |-> ts[1].label]]
         \o Expand(Tail(ts))

\* Two rows of the seeded pool of schema.sql.
SeedTemplates ==
    {[code |-> "POWER_OUTAGE", label |-> "Power outage affecting our data center", weight |-> 3],
     [code |-> "SSL_CERTIFICATE", label |-> "SSL certificate renewal or update", weight |-> 1]}


(***************************************************************************)
(* The POST handler of the check-status route: one invocation per slot.    *)
(***************************************************************************)
NoResult ==
    [status |-> "none", response_time |-> NULL_INT, status_code |-> NULL_INT,
     error_message |-> NULL]

NoResponse == [status |-> 0, success |-> FALSE, checked |-> 0]

IdleCycle ==
    [pc |-> "idle", req |-> Rejected, force |-> FALSE, svcs |-> <<>>, i |-> 0,
     collected |-> <<>>, results |-> <<>>, resp |-> NoResponse]

\* A worker that has claimed service s (services[i++]) and awaits its probe.
Claimed(s) ==
    [pc |-> "probe", service |-> s, res |-> NoResult, incidentId |-> NULL_INT,
     ids |-> {}, reason |-> DefaultReason]

Running(c) == cyc[c].pc \in {"workers", "cleanup"}

\* Mutant: the next service is read without advancing the shared index.
FinishIteration_NoIncrement(c, w, w0, collected) ==
    LET C == cyc[c]
        entry == [service |-> services[w0.service].name, status |-> w0.res.status,
                  response_time |-> w0.res.response_time]
        more == C.i < Len(C.svcs)
    IN  /\ cyc' = [cyc EXCEPT ![c] =
                     [C EXCEPT !.results = Append(C.results, entry),
                               !.collected = collected]]
        /\ wk' = [wk EXCEPT ![c][w] =
                    IF more
                    THEN [Claimed(C.svcs[C.i + 1]) EXCEPT !.res = w0.res]
                    ELSE [w0 EXCEPT !.pc = "done"]]

\* results.push({service, status, response_time}), then the loop test
\* `while (i < services.length)` and the next `services[i++]`.
\* w0 is the worker's record with the locals of the finished iteration.
FinishIteration(c, w, w0, collected) ==
    LET C == cyc[c]
        entry == [service |-> services[w0.service].name, status |-> w0.res.status,
                  response_time |-> w0.res.response_time]
        more == C.i < Len(C.svcs)
    IN  /\ cyc' = [cyc EXCEPT ![c] =
                     [C EXCEPT !.results = Append(C.results, entry),
                               !.collected = collected,
                               !.i = IF more THEN C.i + 1 ELSE C.i]]
        /\ wk' = [wk EXCEPT ![c][w] =
                    IF more
                    THEN [Claimed(C.svcs[C.i + 1]) EXCEPT !.res = w0.res]
                    ELSE [w0 EXCEPT !.pc = "done"]]

\* The worker goes on to its next await inside the same iteration.
Goto(c, w, w1) ==
    /\ wk' = [wk EXCEPT ![c][w] = w1]
    /\ UNCHANGED cyc

NoInvocationRunning == \A c \in CycleIds : ~Running(c)

\* An invocation takes the first slot that is not running.
FreeSlot == IF Running("c1") THEN "c2" ELSE "c1"

\* Request handling up to the start of the worker pool: the secret check, the
\* force flag, the services query, and every worker's first services[i++].
StartCycle(c, req) ==
    /\ cyc[c].pc = "idle"
    /\ c = FreeSlot
    /\ overlap \/ \A d \in CycleIds : ~Running(d)
    /\ LET post == Forwarded(req)
       IN  IF post = Rejected \/ ~PostAuthorized(post)
           THEN /\ cyc' = [cyc EXCEPT ![c] =
                             [IdleCycle EXCEPT !.resp = [NoResponse EXCEPT !.status = 401]]]
                /\ wk' = [wk EXCEPT ![c] = <<>>]
                /\ UNCHANGED runsLeft
           ELSE /\ runsLeft > 0
                /\ runsLeft' = runsLeft - 1
                /\ \E force \in {ForceFlag(post)} :
                   \E svcs \in Orderings(ServicesQuery(force)) :
                     LET n == Min(poolSize, Len(svcs))
                     IN  /\ cyc' = [cyc EXCEPT ![c] =
                                      [IdleCycle EXCEPT !.pc = "workers",
                                                        !.req = req,
                                                        !.force = force,
                                                        !.svcs = svcs, !.i = n]]
                         /\ wk' = [wk EXCEPT ![c] = [w \in 1..n |-> Claimed(svcs[w])]]
    /\ UNCHANGED <<env, net, fetches, http, now, services, templates, status_checks, tables, seq, overlap>>

\* Mutant: every status other than 'operational' takes the down branch.
Branch_DegradedAsDown(status) ==
    IF status = "operational" THEN "resolve" ELSE "selectActive"

\* Incident management: which branch the worker takes for a probe status.
Branch(status) ==
    IF status = "down" THEN "selectActive"
    ELSE IF status = "operational" THEN "resolve"
    ELSE "next"

\* const statusResult = await checkServiceStatus(service.url); collected.push(...)
ProbeReturns(c, w) ==
    /\ cyc[c].pc = "workers"
    /\ w \in DOMAIN wk[c]
    /\ wk[c][w].pc = "probe"
    /\ \E n \in net :
         LET res == checkServiceStatus(n[1], n[2])
             s == wk[c][w].service
             w0 == [wk[c][w] EXCEPT !.res = res]
             collected == Append(cyc[c].collected,
                                 [id |-> s, name |-> services[s].name,
                                  status |-> res.status, response_time |-> res.response_time,
                                  status_code |-> res.status_code,
                                  error_message |-> res.error_message])
         IN  IF Branch(res.status) = "next"
             THEN FinishIteration(c, w, w0, collected)
             ELSE /\ wk' = [wk EXCEPT ![c][w] = [w0 EXCEPT !.pc = Branch(res.status)]]
                  /\ cyc' = [cyc EXCEPT ![c].collected = collected]
    /\ UNCHANGED <<env, net, fetches, http, now, services, templates, status_checks, tables, seq, runsLeft, overlap>>

\* Mutant: the down branch inserts an incident whatever the SELECT returned.
SelectActive_AlwaysInserts(c, w) ==
    /\ cyc[c].pc = "workers"
    /\ w \in DOMAIN wk[c]
    /\ wk[c][w].pc = "selectActive"
    /\ Goto(c, w, [wk[c][w] EXCEPT !.pc = "insertIncident", !.incidentId = NULL_INT])
    /\ UNCHANGED <<env, net, fetches, http, now, services, templates, status_checks, tables, seq, runsLeft, overlap>>

\* The active-incident SELECT of the down branch, and `if (!incidentId)`.
SelectActive(c, w) ==
    /\ cyc[c].pc = "workers"
    /\ w \in DOMAIN wk[c]
    /\ wk[c][w].pc = "selectActive"
    /\ LET rows == ActiveSelect(wk[c][w].service)
       IN  IF rows = {}
           THEN Goto(c, w, [wk[c][w] EXCEPT !.pc = "insertIncident", !.incidentId = NULL_INT])
           ELSE \E id \in rows :
                  FinishIteration(c, w, [wk[c][w] EXCEPT !.incidentId = id], cyc[c].collected)
    /\ UNCHANGED <<env, net, fetches, http, now, services, templates, status_checks, tables, seq, runsLeft, overlap>>

\* INSERT INTO incidents ... RETURNING id
InsertIncident(c, w) ==
    /\ cyc[c].pc = "workers"
    /\ w \in DOMAIN wk[c]
    /\ wk[c][w].pc = "insertIncident"
    /\ LET id == seq.incidents + 1
           s == wk[c][w].service
       IN  /\ incidents' = incidents \cup
                 {NewIncident(id, s, services[s].name, wk[c][w].res.error_message)}
           /\ seq' = [seq EXCEPT !.incidents = id]
           /\ Goto(c, w, [wk[c][w] EXCEPT
                            !.incidentId = id,
                            !.pc = IF env.supabase THEN "selectTemplates" ELSE "insertReason",
                            !.reason = DefaultReason])
    /\ UNCHANGED <<env, net, fetches, http, now, services, templates, status_checks, incident_updates,
                   announcement_reasons, runsLeft, overlap>>

\* supabase.from("announcement_reason_templates").select(...) and the weighted pick
SelectTemplates(c, w) ==
    /\ cyc[c].pc = "workers"
    /\ w \in DOMAIN wk[c]
    /\ wk[c][w].pc = "selectTemplates"
    /\ IF templates = {}
       THEN Goto(c, w, [wk[c][w] EXCEPT !.pc = "insertReason", !.reason = DefaultReason])
       ELSE \E ord \in Orderings(templates) :
              \E k \in 1..Len(Expand(ord)) :
                Goto(c, w, [wk[c][w] EXCEPT !.pc = "insertReason", !.reason = Expand(ord)[k]])
    /\ UNCHANGED <<env, net, fetches, http, now, services, templates, status_checks, tables, seq, runsLeft, overlap>>

\* The announcement_reasons insert, through Supabase or through SQL.
InsertReason(c, w) ==
    /\ cyc[c].pc = "workers"
    /\ w \in DOMAIN wk[c]
    /\ wk[c][w].pc = "insertReason"
    /\ announcement_reasons' =
         InsertReasonRow(wk[c][w].incidentId, wk[c][w].service, wk[c][w].reason)
    /\ FinishIteration(c, w, wk[c][w], cyc[c].collected)
    /\ UNCHANGED <<env, net, fetches, http, now, services, templates, status_checks, incidents,
                   incident_updates, seq, runsLeft, overlap>>

\* Mutant: the resolving UPDATE has no `service_id = $1`.
Resolve_AnyService(c, w) ==
    /\ cyc[c].pc = "workers"
    /\ w \in DOMAIN wk[c]
    /\ wk[c][w].pc = "resolve"
    /\ LET rows == {r \in incidents : r.status # "resolved"}
           ids == {r.id : r \in rows}
       IN  /\ incidents' = {IF r \in rows
                            THEN [r EXCEPT !.status = "resolved", !.resolved_at = now]
                            ELSE r : r \in incidents}
           /\ IF ids # {}
              THEN Goto(c, w, [wk[c][w] EXCEPT !.pc = "deleteReasons", !.ids = ids])
              ELSE FinishIteration(c, w, wk[c][w], cyc[c].collected)
    /\ UNCHANGED <<env, net, fetches, http, now, services, templates, status_checks, incident_updates,
                   announcement_reasons, seq, runsLeft, overlap>>

\* The resolving UPDATE of the operational branch, and `if (resolved.rows.length > 0)`.
Resolve(c, w) ==
    /\ cyc[c].pc = "workers"
    /\ w \in DOMAIN wk[c]
    /\ wk[c][w].pc = "resolve"
    /\ LET ids == {r.id : r \in ResolveRows(wk[c][w].service)}
       IN  /\ incidents' = ResolveUpdate(wk[c][w].service)
           /\ IF ids # {}
              THEN Goto(c, w, [wk[c][w] EXCEPT !.pc = "deleteReasons", !.ids = ids])
              ELSE FinishIteration(c, w, wk[c][w], cyc[c].collected)
    /\ UNCHANGED <<env, net, fetches, http, now, services, templates, status_checks, incident_updates,
                   announcement_reasons, seq, runsLeft, overlap>>

\* Remove announcement reasons for the resolved incidents.
DeleteReasons(c, w) ==
    /\ cyc[c].pc = "workers"
    /\ w \in DOMAIN wk[c]
    /\ wk[c][w].pc = "deleteReasons"
    /\ announcement_reasons' = DeleteReasonsOf(wk[c][w].ids)
    /\ Goto(c, w, [wk[c][w] EXCEPT !.pc = "insertUpdates"])
    /\ UNCHANGED <<env, net, fetches, http, now, services, templates, status_checks, incidents,
                   incident_updates, seq, runsLeft, overlap>>

\* One incident_updates row per resolved incident.
InsertUpdates(c, w) ==
    /\ cyc[c].pc = "workers"
    /\ w \in DOMAIN wk[c]
    /\ wk[c][w].pc = "insertUpdates"
    /\ \E ord \in Orderings(wk[c][w].ids) :
         incident_updates' = InsertUpdateRows(ord)
    /\ seq' = [seq EXCEPT !.incident_updates = @ + Cardinality(wk[c][w].ids)]
    /\ FinishIteration(c, w, wk[c][w], cyc[c].collected)
    /\ UNCHANGED <<env, net, fetches, http, now, services, templates, status_checks, incidents,
                   announcement_reasons, runsLeft, overlap>>

\* Mutant: the batch insert does not await the workers.
BatchInsert_Early(c) ==
    /\ cyc[c].pc = "workers"
    /\ IF Len(cyc[c].collected) > 0
       THEN /\ status_checks' = InsertStatusChecks(cyc[c].collected)
            /\ seq' = [seq EXCEPT !.status_checks = @ + Len(cyc[c].collected)]
       ELSE UNCHANGED <<status_checks, seq>>
    /\ cyc' = [cyc EXCEPT ![c].pc = "cleanup"]
    /\ UNCHANGED <<env, net, fetches, http, now, services, templates, tables, wk, runsLeft, overlap>>

\* await Promise.all(workers), then the batch insert of status_checks.
BatchInsert(c) ==
    /\ cyc[c].pc = "workers"
    /\ \A w \in DOMAIN wk[c] : wk[c][w].pc = "done"
    /\ IF Len(cyc[c].collected) > 0
       THEN /\ status_checks' = InsertStatusChecks(cyc[c].collected)
            /\ seq' = [seq EXCEPT !.status_checks = @ + Len(cyc[c].collected)]
       ELSE UNCHANGED <<status_checks, seq>>
    /\ cyc' = [cyc EXCEPT ![c].pc = "cleanup"]
    /\ UNCHANGED <<env, net, fetches, http, now, services, templates, tables, wk, runsLeft, overlap>>

\* SELECT cleanup_old_status_checks(), then the success response
\* {success, checked: results.length, results}; the invocation is over.
Cleanup(c) ==
    /\ cyc[c].pc = "cleanup"
    /\ status_checks' = cleanup_old_status_checks(status_checks)
    /\ cyc' = [cyc EXCEPT ![c] =
                  [IdleCycle EXCEPT !.resp = [status |-> 200, success |-> TRUE,
                                              checked |-> Len(cyc[c].results)],
                                    !.results = cyc[c].results]]
    /\ wk' = [wk EXCEPT ![c] = <<>>]
    /\ UNCHANGED <<env, net, fetches, http, now, services, templates, tables, seq, runsLeft, overlap>>

\* Time passes: one check interval.
Tick ==
    /\ now + DefaultCheckInterval <= MaxNow
    /\ now' = now + DefaultCheckInterval
    /\ UNCHANGED <<env, net, fetches, http, services, templates, status_checks, tables, seq, cyc, wk, runsLeft, overlap>>

(***************************************************************************)
(* The engine specification.                                               *)
(***************************************************************************)
\* The engine specifications watch one target: the first seeded service.
EngineServices ==
    <<[name |-> "TCIOE Main Website", is_active |-> TRUE,
       check_interval |-> DefaultCheckInterval]>>

\* No request to the other routes has been answered.
NoRequest == [route |-> "none", status |-> 0, body |-> <<>>]

NoInvocation ==
    /\ cyc = [c \in CycleIds |-> IdleCycle]
    /\ wk = [c \in CycleIds |-> <<>>]

\* The database after schema.sql, before any cycle.
EmptyDb ==
    /\ templates = SeedTemplates
    /\ status_checks = {}
    /\ incidents = {}
    /\ incident_updates = {}
    /\ announcement_reasons = {}
    /\ seq = [incidents |-> 0, incident_updates |-> 0, status_checks |-> 0]

\* The reason row such a cycle persists for the incident it opened: a pick
\* from the pool through Supabase, the default reason through SQL.
SeedReason(incident_id) ==
    [incident_id |-> incident_id, service_id |-> 1,
     reason_code |-> IF env.supabase THEN "POWER_OUTAGE" ELSE DefaultReason.code,
     reason_text |-> IF env.supabase THEN "Power outage affecting our data center"
                     ELSE DefaultReason.text]

\* The database after one cycle at time 0 that found the target unreachable:
\* its status check, the incident it opened and the reason it persisted.
OpenIncidentDb ==
    /\ templates = SeedTemplates
    /\ status_checks =
         {[id |-> 1, service_id |-> 1, status |-> "down", response_time |-> 40,
           status_code |-> NULL_INT, error_message |-> "Connection refused",
           checked_at |-> 0]}
    /\ incidents = {[NewIncident(1, 1, EngineServices[1].name, "Connection refused")
                       EXCEPT !.started_at = 0]}
    /\ incident_updates = {}
    /\ announcement_reasons = {SeedReason(1)}
    /\ seq = [incidents |-> 1, incident_updates |-> 0, status_checks |-> 1]

\* The database two overlapping cycles at time 0 leave behind when one finds
\* the target unreachable and the other finds it up: the second resolves the
\* incident of the first before the first has inserted its reason.
StaleReasonDb ==
    /\ templates = SeedTemplates
    /\ status_checks =
         {[id |-> 1, service_id |-> 1, status |-> "operational", response_time |-> 100,
           status_code |-> 200, error_message |-> NULL, checked_at |-> 0],
          [id |-> 2, service_id |-> 1, status |-> "down", response_time |-> 40,
           status_code |-> NULL_INT, error_message |-> "Connection refused",
           checked_at |-> 0]}
    /\ incidents =
         {[NewIncident(1, 1, EngineServices[1].name, "Connection refused")
             EXCEPT !.status = "resolved", !.resolved_at = 0]}
    /\ incident_updates =
         {[id |-> 1, incident_id |-> 1, message |-> RestoredMessage, status |-> "resolved"]}
    /\ announcement_reasons = {SeedReason(1)}
    /\ seq = [incidents |-> 1, incident_updates |-> 1, status_checks |-> 2]

\* The database two overlapping cycles at time 0 leave behind when both find
\* the target unreachable and both find no active incident.
TwoActiveDb ==
    /\ templates = SeedTemplates
    /\ status_checks =
         {[id |-> k, service_id |-> 1, status |-> "down", response_time |-> 40,
           status_code |-> NULL_INT, error_message |-> "Connection refused",
           checked_at |-> 0] : k \in {1, 2}}
    /\ incidents =
         {NewIncident(k, 1, EngineServices[1].name, "Connection refused") : k \in {1, 2}}
    /\ incident_updates = {}
    /\ announcement_reasons = {SeedReason(1), SeedReason(2)}
    /\ seq = [incidents |-> 2, incident_updates |-> 0, status_checks |-> 2]

Init ==
    /\ env \in [CRON_SECRET : {"s3cret"}, supabase : BOOLEAN]
    /\ net = EngineNets
    /\ services = EngineServices
    /\ now = 0
    /\ EmptyDb \/ OpenIncidentDb
    /\ NoInvocation
    /\ http = NoRequest
    /\ fetches = <<>>
    /\ runsLeft = MaxRuns
    /\ overlap = TRUE

InitSeq ==
    /\ env \in [CRON_SECRET : {"s3cret"}, supabase : BOOLEAN]
    /\ net = EngineNets
    /\ services = EngineServices
    /\ now = 0
    /\ EmptyDb \/ StaleReasonDb \/ TwoActiveDb
    /\ NoInvocation
    /\ http = NoRequest
    /\ fetches = <<>>
    /\ runsLeft = MaxSeqRuns
    /\ overlap = FALSE

\* A trigger invokes the POST handler.
Trigger == \E c \in CycleIds, req \in EngineRequests : StartCycle(c, req)

\* An invocation that has started takes its next step.
Progress ==
    \/ \E c \in CycleIds, w \in 1..poolSize : ProbeReturns(c, w)
    \/ \E c \in CycleIds, w \in 1..poolSize : SelectActive(c, w)
    \/ \E c \in CycleIds, w \in 1..poolSize : InsertIncident(c, w)
    \/ \E c \in CycleIds, w \in 1..poolSize : SelectTemplates(c, w)
    \/ \E c \in CycleIds, w \in 1..poolSize : InsertReason(c, w)
    \/ \E c \in CycleIds, w \in 1..poolSize : Resolve(c, w)
    \/ \E c \in CycleIds, w \in 1..poolSize : DeleteReasons(c, w)
    \/ \E c \in CycleIds, w \in 1..poolSize : InsertUpdates(c, w)
    \/ \E c \in CycleIds : BatchInsert(c)
    \/ \E c \in CycleIds : Cleanup(c)

\* The steps of the invocations of the POST handler.
Cycle == Trigger \/ Progress

Next == Cycle \/ Tick

Spec == Init /\ [][Next]_vars

SpecSeq == InitSeq /\ [][Next]_vars


(***************************************************************************)
(* The scheduler specification: one request to a trigger route, in a       *)
(* database whose services and check history are arbitrary.                *)
(***************************************************************************)
SchedNow == 2 * DefaultCheckInterval

\* How long ago a status check was recorded, in seconds.
SchedAges == {DefaultCheckInterval - 1, DefaultCheckInterval, DefaultCheckInterval + 1}

\* One status_checks row per (service, age) pair of h.
SchedChecks(h) ==
    {[id |-> (p[1] - 1) * (DefaultCheckInterval + 2) + p[2], service_id |-> p[1],
      status |-> "operational", response_time |-> 100, status_code |-> 200,
      error_message |-> NULL, checked_at |-> SchedNow - p[2]] : p \in h}

\* The requests of the scheduler specification: every route, forced and not.
SchedRequests ==
    {Request("POST", "Bearer s3cret", f, NULL, NULL) : f \in ForceValues}
    \cup {Request("GET", NULL, NULL, "s3cret", f) : f \in ForceValues}
    \cup {Request("FORCE", NULL, NULL, "s3cret", NULL),
          Request("FORCE", NULL, NULL, "wrong", NULL),
          Request("GET", NULL, NULL, NULL, "1"),
          Request("POST", NULL, "1", NULL, NULL)}

InitSched ==
    /\ env = [CRON_SECRET |-> "s3cret", supabase |-> FALSE]
    /\ net = EngineNets
    /\ services \in [1..NumSchedServices ->
                       [name : {"svc"}, is_active : BOOLEAN,
                        check_interval : {ApiCheckInterval, DefaultCheckInterval}]]
    /\ now = SchedNow
    /\ templates = SeedTemplates
    /\ \E h \in SUBSET ((1..NumSchedServices) \X SchedAges) : status_checks = SchedChecks(h)
    /\ incidents = {}
    /\ incident_updates = {}
    /\ announcement_reasons = {}
    /\ seq = [incidents |-> 0, incident_updates |-> 0,
              status_checks |-> NumSchedServices * (DefaultCheckInterval + 2)]
    /\ NoInvocation
    /\ http = NoRequest
    /\ fetches = <<>>
    /\ runsLeft = 1
    /\ overlap = FALSE

NextSched == \E req \in SchedRequests : StartCycle("c1", req)

SpecSched == InitSched /\ [][NextSched]_vars


(***************************************************************************)
(* The pool specification: one scheduled cycle over many targets, each     *)
(* answering slowly.                                                       *)
(***************************************************************************)
\* The scheduled POST of the cron trigger.
ScheduledPost == Request("POST", "Bearer s3cret", NULL, NULL, NULL)

\* Every target answers 200 after 3 s.
SlowNets == {<<FetchOk(200, 3000), NoFetch>>}

\* The rows come back in id order.
InIdOrder(svcs) == \A k \in 1..(Len(svcs) - 1) : svcs[k] < svcs[k + 1]

InitPool ==
    /\ env = [CRON_SECRET |-> "s3cret", supabase |-> FALSE]
    /\ net = SlowNets
    /\ services \in [1..NumPoolServices ->
                       [name : {"svc"}, is_active : BOOLEAN,
                        check_interval : {DefaultCheckInterval}]]
    /\ now = 0
    /\ EmptyDb
    /\ NoInvocation
    /\ http = NoRequest
    /\ fetches = <<>>
    /\ runsLeft = 1
    /\ overlap = FALSE

NextPool ==
    \/ StartCycle("c1", ScheduledPost) /\ InIdOrder(cyc'["c1"].svcs)
    \/ \E w \in 1..poolSize : ProbeReturns("c1", w)
    \/ BatchInsert("c1")
    \/ Cleanup("c1")

SpecPool == InitPool /\ [][NextPool]_vars

(***************************************************************************)
(* The isolation specification: one cycle over several due targets, each   *)
(* of which may be up or fail at the transport level.                      *)
(***************************************************************************)
\* A target is up, or its GET and its HEAD both fail: by timeout (abort
\* after 10 s, then after 5 s), by DNS, or by a refused connection.
TransportNets ==
    { <<FetchOk(200, 100), NoFetch>>,
      <<FetchErr("AbortError", "This operation was aborted", 10000),
        FetchErr("AbortError", "This operation was aborted", 5000)>>,
      <<FetchErr("TypeError", "getaddrinfo ENOTFOUND host", 30),
        FetchErr("TypeError", "getaddrinfo ENOTFOUND host", 30)>>,
      <<FetchErr("TypeError", "connect ECONNREFUSED", 20),
        FetchErr("TypeError", "connect ECONNREFUSED", 20)>> }

\* The first two seeded services.
IsoServices ==
    <<[name |-> "TCIOE Main Website", is_active |-> TRUE,
       check_interval |-> DefaultCheckInterval],
      [name |-> "TCIOE Admissions Portal", is_active |-> TRUE,
       check_interval |-> DefaultCheckInterval]>>

InitIso ==
    /\ env \in [CRON_SECRET : {"s3cret"}, supabase : BOOLEAN]
    /\ net = TransportNets
    /\ services = IsoServices
    /\ now = DefaultCheckInterval
    /\ EmptyDb \/ OpenIncidentDb
    /\ NoInvocation
    /\ http = NoRequest
    /\ fetches = <<>>
    /\ runsLeft = 1
    /\ overlap = FALSE

SpecIso == InitIso /\ [][Cycle]_vars

(***************************************************************************)
(* The failure specification: statements of the reconciliation may fail.   *)
(* `query` rethrows the error of pg; the Supabase client resolves with an  *)
(* {data: null, error} object, which the handler never reads.              *)
(***************************************************************************)
\* The positions of a worker whose statement goes through `query`.
QueryPositions ==
    {"selectActive", "insertIncident", "resolve", "insertUpdates"}
      \cup (IF env.supabase THEN {} ELSE {"insertReason", "deleteReasons"})

\* The positions of a worker whose write goes through the Supabase client.
SupabaseWritePositions ==
    IF env.supabase THEN {"insertReason", "deleteReasons"} ELSE {}

\* The response of the catch block of POST.
FailedResponse == [status |-> 500, success |-> FALSE, checked |-> 0]

\* Mutant: the rejection of a worker is not caught, no response is sent.
StatementThrows_Uncaught(c, w) ==
    /\ cyc[c].pc = "workers"
    /\ w \in DOMAIN wk[c]
    /\ wk[c][w].pc \in QueryPositions
    /\ wk' = [wk EXCEPT ![c][w].pc = "threw"]
    /\ UNCHANGED <<env, net, fetches, http, now, services, templates, status_checks, tables, seq,
                   cyc, runsLeft, overlap>>

\* `await query(...)` rejects: the worker's promise rejects, Promise.all
\* rejects with it, and the catch block of POST answers 500.  The other
\* workers of the invocation keep running.
StatementThrows(c, w) ==
    /\ cyc[c].pc = "workers"
    /\ w \in DOMAIN wk[c]
    /\ wk[c][w].pc \in QueryPositions
    /\ wk' = [wk EXCEPT ![c][w].pc = "threw"]
    /\ cyc' = [cyc EXCEPT ![c].resp = FailedResponse]
    /\ UNCHANGED <<env, net, fetches, http, now, services, templates, status_checks, tables, seq, runsLeft, overlap>>

\* The Supabase insert or delete resolves with an error: nothing is written
\* and the worker goes on as after a successful statement.
ErrorIgnored(c, w) ==
    /\ cyc[c].pc = "workers"
    /\ w \in DOMAIN wk[c]
    /\ wk[c][w].pc \in SupabaseWritePositions
    /\ IF wk[c][w].pc = "insertReason"
       THEN FinishIteration(c, w, wk[c][w], cyc[c].collected)
       ELSE Goto(c, w, [wk[c][w] EXCEPT !.pc = "insertUpdates"])
    /\ UNCHANGED <<env, net, fetches, http, now, services, templates, status_checks, tables, seq, runsLeft, overlap>>

\* The templates select resolves with an error: `.data || []` is the empty
\* list and the default reason stays.
SelectTemplatesFails(c, w) ==
    /\ cyc[c].pc = "workers"
    /\ w \in DOMAIN wk[c]
    /\ wk[c][w].pc = "selectTemplates"
    /\ Goto(c, w, [wk[c][w] EXCEPT !.pc = "insertReason", !.reason = DefaultReason])
    /\ UNCHANGED <<env, net, fetches, http, now, services, templates, status_checks, tables, seq, runsLeft, overlap>>

\* Every worker of an invocation that answered 500 has settled: the
\* invocation is over, without batch insert and without cleanup.
Abandon(c) ==
    /\ cyc[c].pc = "workers"
    /\ cyc[c].resp = FailedResponse
    /\ \A w \in DOMAIN wk[c] : wk[c][w].pc \in {"done", "threw"}
    /\ cyc' = [cyc EXCEPT ![c] = [IdleCycle EXCEPT !.resp = FailedResponse]]
    /\ wk' = [wk EXCEPT ![c] = <<>>]
    /\ UNCHANGED <<env, net, fetches, http, now, services, templates, status_checks, tables, seq, runsLeft, overlap>>

\* The database after schema.sql with an empty template pool.
NoTemplatesDb ==
    /\ templates = {}
    /\ status_checks = {}
    /\ incidents = {}
    /\ incident_updates = {}
    /\ announcement_reasons = {}
    /\ seq = [incidents |-> 0, incident_updates |-> 0, status_checks |-> 0]

InitFail ==
    /\ env \in [CRON_SECRET : {"s3cret"}, supabase : BOOLEAN]
    /\ net = EngineNets
    /\ services = EngineServices
    /\ now = 0
    /\ EmptyDb \/ OpenIncidentDb \/ NoTemplatesDb
    /\ NoInvocation
    /\ http = NoRequest
    /\ fetches = <<>>
    /\ runsLeft = MaxSeqRuns
    /\ overlap = FALSE

NextFail ==
    \/ Cycle
    \/ Tick
    \/ \E c \in CycleIds, w \in 1..poolSize : StatementThrows(c, w)
    \/ \E c \in CycleIds, w \in 1..poolSize : ErrorIgnored(c, w)
    \/ \E c \in CycleIds, w \in 1..poolSize : SelectTemplatesFails(c, w)
    \/ \E c \in CycleIds : Abandon(c)

SpecFail == InitFail /\ [][NextFail]_vars

(***************************************************************************)
(* The authorization specification: one request to a trigger route, for    *)
(* every configuration of CRON_SECRET.                                     *)
(***************************************************************************)
\* process.env.CRON_SECRET: unset, empty, or set.
CronSecrets == {UNDEFINED, "", "s3cret"}

\* The Authorization header of a POST.
AuthValues == {NULL, "Bearer ", "Bearer s3cret", "Bearer wrong"}

\* The ?secret= parameter of the GET and the [secret] segment of the force route.
SecretValues == {NULL, "", "s3cret", "wrong"}

AuthRequests ==
    {Request("POST", a, f, NULL, NULL) : a \in AuthValues, f \in {NULL, "1"}}
    \cup {Request("GET", NULL, NULL, s, f) : s \in SecretValues, f \in {NULL, "1"}}
    \cup {Request("FORCE", NULL, NULL, s, NULL) : s \in SecretValues \ {NULL}}

InitAuth ==
    /\ env \in [CRON_SECRET : CronSecrets, supabase : {FALSE}]
    /\ net = EngineNets
    /\ services \in [1..NumSchedServices ->
                       [name : {"svc"}, is_active : BOOLEAN,
                        check_interval : {DefaultCheckInterval}]]
    /\ now = 0
    /\ EmptyDb
    /\ NoInvocation
    /\ http = NoRequest
    /\ fetches = <<>>
    /\ runsLeft = 1
    /\ overlap = FALSE

NextAuth == \E req \in AuthRequests : StartCycle("c1", req)

SpecAuth == InitAuth /\ [][NextAuth]_vars

(***************************************************************************)
(* The retention specification: a database with status checks around the   *)
(* 30-day limit, cycles that may or may not be invoked, and passing days.  *)
(***************************************************************************)
\* The time of the first state: 30 days and one second after time 0.
RetentionStart == RetentionSeconds + 1

\* Three status checks of the target: recorded 30 days and one second ago,
\* exactly 30 days ago, and one second less than 30 days ago.
RetentionChecks ==
    {[id |-> k + 1, service_id |-> 1, status |-> "operational", response_time |-> 100,
      status_code |-> 200, error_message |-> NULL, checked_at |-> k] : k \in {0, 1, 2}}

InitRetention ==
    /\ env \in [CRON_SECRET : {"s3cret"}, supabase : BOOLEAN]
    /\ net = EngineNets
    /\ services = EngineServices
    /\ now = RetentionStart
    /\ templates = SeedTemplates
    /\ status_checks = RetentionChecks
    /\ incidents = {}
    /\ incident_updates = {}
    /\ announcement_reasons = {}
    /\ seq = [incidents |-> 0, incident_updates |-> 0, status_checks |-> 3]
    /\ NoInvocation
    /\ http = NoRequest
    /\ fetches = <<>>
    /\ runsLeft = MaxRuns
    /\ overlap = FALSE

\* A day passes.
DayPasses ==
    /\ now + Day <= RetentionStart + MaxDays * Day
    /\ now' = now + Day
    /\ UNCHANGED <<env, net, fetches, http, services, templates, status_checks, tables, seq, cyc, wk, runsLeft, overlap>>

NextRetention == Cycle \/ DayPasses

\* Time passes and an invocation that has started runs to its end; nothing
\* obliges a trigger to invoke one.
SpecRetention ==
    InitRetention /\ [][NextRetention]_vars /\ WF_vars(DayPasses) /\ WF_vars(Progress)

(***************************************************************************)
(* The probe specification: one cycle probes one target whose GET and HEAD *)
(* have a given outcome.                                                   *)
(***************************************************************************)
\* Status codes at and around the limits of the classes.
ProbeCodes ==
    {100, 199, 200, 204, 299, 300, 301, 399, 400, 401, 403, 404, 418, 429, 499,
     500, 503, 599, 600, 999}

\* Latencies in milliseconds, at and around the slow limit.
ProbeLatencies == {100, SlowThresholdMs, SlowThresholdMs + 1, 3000}

\* The abort of the 10 s (GET) or 5 s (HEAD) timer.
Timeout(ms) == FetchErr("AbortError", "This operation was aborted", ms)

\* Rejections that are no timeout: DNS, refused connection, another cause,
\* and an error without message.
TransportErrors ==
    {FetchErr("TypeError", "getaddrinfo ENOTFOUND host", 20),
     FetchErr("TypeError", "connect ECONNREFUSED", 20),
     FetchErr("TypeError", "socket hang up", 20),
     FetchErr("Error", "", 20)}

\* The outcomes of the GET, and of the HEAD that follows a rejected GET.
ProbeOutcomes ==
    {<<FetchOk(code, ms), NoFetch>> : code \in ProbeCodes, ms \in ProbeLatencies}
    \cup ((TransportErrors \cup {Timeout(10000)})
            \X (TransportErrors \cup {Timeout(5000)}
                  \cup {FetchOk(code, 100) : code \in {200, 404, 503}}))

InitProbe ==
    /\ env = [CRON_SECRET |-> "s3cret", supabase |-> FALSE]
    /\ \E n \in ProbeOutcomes : net = {n}
    /\ services = EngineServices
    /\ now = 0
    /\ EmptyDb
    /\ NoInvocation
    /\ http = NoRequest
    /\ fetches = <<>>
    /\ runsLeft = 1
    /\ overlap = FALSE

NextProbe ==
    \/ StartCycle("c1", ScheduledPost)
    \/ ProbeReturns("c1", 1)

SpecProbe == InitProbe /\ [][NextProbe]_vars

(***************************************************************************)
(* The service listing: GET of the services route, over databases with a   *)
(* few status checks and incidents per service.                            *)
(***************************************************************************)
\* Mutant: ORDER BY checked_at ASC.
LatestChecks_Oldest(s) ==
    {r \in status_checks :
       /\ r.service_id = s
       /\ \A q \in status_checks : q.service_id = s => r.checked_at <= q.checked_at}

\* (SELECT status FROM status_checks WHERE service_id = s.id
\*  ORDER BY checked_at DESC LIMIT 1): the rows the subquery may return.
LatestChecks(s) ==
    {r \in status_checks :
       /\ r.service_id = s
       /\ \A q \in status_checks : q.service_id = s => q.checked_at <= r.checked_at}

\* COALESCE(..., 'unknown') as current_status: the values it may have.
CurrentStatuses(s) ==
    IF LatestChecks(s) = {} THEN {"unknown"} ELSE {r.status : r \in LatestChecks(s)}

\* (SELECT COUNT(*) FROM incidents WHERE service_id = s.id AND status != 'resolved')
ActiveIncidentCount(s) == Cardinality(ActiveIncidents(s))

\* The names of the listed services in ascending order (ORDER BY s.name).
NameOrder == <<"TCIOE Admissions Portal", "TCIOE Main Website">>
NameRank(name) == CHOOSE k \in 1..Len(NameOrder) : NameOrder[k] = name

\* FROM services s WHERE s.is_active = true ORDER BY s.name
ListedIds ==
    LET S == {s \in DOMAIN services : services[s].is_active}
    IN  CHOOSE q \in Orderings(S) :
          \A a, b \in 1..Len(q) :
            a < b => NameRank(services[q[a]].name) < NameRank(services[q[b]].name)

\* GET of the services route: { services: rows }.
ListServices ==
    /\ http.route = "none"
    /\ \E st \in [DOMAIN services -> {"unknown", "operational", "degraded", "down"}] :
         /\ \A s \in DOMAIN services : st[s] \in CurrentStatuses(s)
         /\ http' = [route |-> "services", status |-> 200,
                     body |-> [k \in 1..Len(ListedIds) |->
                                 [id |-> ListedIds[k],
                                  name |-> services[ListedIds[k]].name,
                                  current_status |-> st[ListedIds[k]],
                                  active_incidents |-> ActiveIncidentCount(ListedIds[k])]]]
    /\ UNCHANGED <<env, net, fetches, now, services, templates, status_checks, tables, seq,
                   cyc, wk, runsLeft, overlap>>

\* The status checks of the listing specification: per service, at time 0 and
\* one interval later, operational or down.
ListCheckKeys == (1..2) \X {0, DefaultCheckInterval} \X {"operational", "down"}

ListCheck(k) ==
    [id |-> (k[1] - 1) * 4 + (IF k[2] = 0 THEN 0 ELSE 2)
              + (IF k[3] = "operational" THEN 1 ELSE 2),
     service_id |-> k[1], status |-> k[3],
     response_time |-> IF k[3] = "operational" THEN 100 ELSE 40,
     status_code |-> IF k[3] = "operational" THEN 200 ELSE NULL_INT,
     error_message |-> IF k[3] = "operational" THEN NULL ELSE "Connection refused",
     checked_at |-> k[2]]

\* The incidents of the listing specification: per service, as opened by the
\* engine, as set to 'monitoring' by an administrator, and as resolved.
ListIncidentKeys == (1..2) \X {"investigating", "monitoring", "resolved"}

ListIncident(k) ==
    [id          |-> (k[1] - 1) * 3
                       + (IF k[2] = "investigating" THEN 1
                          ELSE IF k[2] = "monitoring" THEN 2 ELSE 3),
     service_id  |-> k[1],
     title       |-> IsoServices[k[1]].name \o " is down",
     description |-> "Connection refused",
     status      |-> k[2],
     severity    |-> "major",
     started_at  |-> 0,
     resolved_at |-> IF k[2] = "resolved" THEN DefaultCheckInterval ELSE NULL_INT]

InitList ==
    /\ env = [CRON_SECRET |-> "s3cret", supabase |-> FALSE]
    /\ net = EngineNets
    /\ \E act \in [1..2 -> BOOLEAN] :
         services = [s \in 1..2 |-> [IsoServices[s] EXCEPT !.is_active = act[s]]]
    /\ now = DefaultCheckInterval
    /\ templates = SeedTemplates
    /\ \E h \in SUBSET ListCheckKeys :
         /\ Cardinality(h) <= MaxListRows
         /\ status_checks = {ListCheck(k) : k \in h}
    /\ \E g \in SUBSET ListIncidentKeys :
         /\ Cardinality(g) <= MaxListRows
         /\ incidents = {ListIncident(k) : k \in g}
    /\ incident_updates = {}
    /\ announcement_reasons = {}
    /\ seq = [incidents |-> 6, incident_updates |-> 0, status_checks |-> 8]
    /\ NoInvocation
    /\ http = NoRequest
    /\ fetches = <<>>
    /\ runsLeft = 0
    /\ overlap = FALSE

NextList == ListServices

SpecList == InitList /\ [][NextList]_vars

(***************************************************************************)
(* The public report: POST of the report-down route, while a cycle may be  *)
(* running.                                                                *)
(***************************************************************************)
\* The request bodies: JSON with a service_id (of a service, of no service,
\* absent), or a body request.json() rejects.
ReportBodies ==
    [valid : BOOLEAN, service_id : {1, 2, NULL_INT}]

\* What the fetch of the webhook does: not configured, answered 2xx,
\* answered otherwise, rejected.
WebhookOutcomes == {"none", "ok", "failed", "threw"}

\* Mutant: a report for a service opens an incident.
ReportDown_OpensIncident ==
    /\ http.route = "none"
    /\ \E body \in ReportBodies, hook \in WebhookOutcomes :
         /\ http' = [route |-> "report-down",
                     status |-> IF body.valid THEN 200 ELSE 500,
                     body |-> <<>>]
         /\ IF body.valid /\ body.service_id \in DOMAIN services
            THEN /\ incidents' = incidents \cup
                      {NewIncident(seq.incidents + 1, body.service_id,
                                   services[body.service_id].name, "Reported by a user")}
                 /\ seq' = [seq EXCEPT !.incidents = @ + 1]
            ELSE UNCHANGED <<incidents, seq>>
    /\ UNCHANGED <<env, net, fetches, now, services, templates, status_checks, incident_updates,
                   announcement_reasons, cyc, wk, runsLeft, overlap>>

\* POST of the report-down route: geo lookup, webhook, { success, message };
\* a body that is no JSON is answered 500.  No statement reaches the database.
ReportDown ==
    /\ http.route = "none"
    /\ \E body \in ReportBodies, hook \in WebhookOutcomes :
         http' = [route |-> "report-down",
                  status |-> IF body.valid THEN 200 ELSE 500,
                  body |-> <<>>]
    /\ UNCHANGED <<env, net, fetches, now, services, templates, status_checks, tables, seq,
                   cyc, wk, runsLeft, overlap>>

InitReport ==
    /\ env \in [CRON_SECRET : {"s3cret"}, supabase : BOOLEAN]
    /\ net = EngineNets
    /\ services = EngineServices
    /\ now = 0
    /\ EmptyDb \/ OpenIncidentDb
    /\ NoInvocation
    /\ http = NoRequest
    /\ fetches = <<>>
    /\ runsLeft = 1
    /\ overlap = FALSE

NextReport == Cycle \/ ReportDown

SpecReport == InitReport /\ [][NextReport]_vars

(***************************************************************************)
(* Creation of services: POST of the services route, and an INSERT that    *)
(* leaves check_interval to the default of the schema.                     *)
(***************************************************************************)
\* Bodies of POST: name present or not; check_interval absent (undefined), 0
\* or 600.
CreateBodies == [name : {NULL, "svc"}, check_interval : {NULL_INT, 0, 600}]

\* JS truthiness of a number-or-undefined value.
TruthyNum(v) == v # NULL_INT /\ v # 0

\* check_interval || 300
ApiInterval(v) == IF TruthyNum(v) THEN v ELSE ApiCheckInterval

\* POST of the services route: 400 without name or url, else INSERT INTO
\* services (name, url, description, check_interval) ... RETURNING *.
CreateService ==
    /\ \E body \in CreateBodies :
         IF ~Truthy(body.name)
         THEN /\ http' = [route |-> "services-post", status |-> 400, body |-> <<>>]
              /\ UNCHANGED services
         ELSE /\ Len(services) < MaxServices
              /\ services' = Append(services,
                                    [name |-> body.name, is_active |-> TRUE,
                                     check_interval |-> ApiInterval(body.check_interval)])
              /\ http' = [route |-> "services-post", status |-> 201,
                          body |-> <<[id |-> Len(services) + 1,
                                      given |-> body.check_interval # NULL_INT]>>]
    /\ UNCHANGED <<env, net, fetches, now, templates, status_checks, tables, seq,
                   cyc, wk, runsLeft, overlap>>

\* INSERT INTO services (name, url) VALUES (...): is_active and check_interval
\* take the defaults of the schema.
InsertService ==
    /\ Len(services) < MaxServices
    /\ services' = Append(services,
                          [name |-> "svc", is_active |-> TRUE,
                           check_interval |-> DefaultCheckInterval])
    /\ http' = [route |-> "sql-insert", status |-> 0,
                body |-> <<[id |-> Len(services) + 1, given |-> FALSE]>>]
    /\ UNCHANGED <<env, net, fetches, now, templates, status_checks, tables, seq,
                   cyc, wk, runsLeft, overlap>>

InitCreate ==
    /\ env = [CRON_SECRET |-> "s3cret", supabase |-> FALSE]
    /\ net = EngineNets
    /\ services = EngineServices
    /\ now = 0
    /\ EmptyDb
    /\ NoInvocation
    /\ http = NoRequest
    /\ fetches = <<>>
    /\ runsLeft = 1
    /\ overlap = FALSE

NextCreate ==
    \/ CreateService
    \/ InsertService
    \/ StartCycle("c1", ScheduledPost)
    \/ Tick

SpecCreate == InitCreate /\ [][NextCreate]_vars

(***************************************************************************)
(* Manual incidents: POST of the incidents route of a service, while the   *)
(* engine runs its cycles.                                                 *)
(***************************************************************************)
\* Bodies of POST: status absent or one of the four statuses.
ManualStatuses == {NULL, "identified", "monitoring", "resolved"}

\* POST of the incidents route: 400 for an id that is no number, else INSERT
\* INTO incidents (...) VALUES ($1, title, description || null,
\* status || 'investigating', severity || 'major', NOW()) RETURNING *.
CreateIncident ==
    /\ http.route = "none"
    /\ \E serviceId \in {1, NULL_INT}, status \in ManualStatuses :
         IF serviceId = NULL_INT
         THEN /\ http' = [route |-> "incidents-post", status |-> 400, body |-> <<>>]
              /\ UNCHANGED <<incidents, seq>>
         ELSE /\ incidents' = incidents \cup
                   {[id          |-> seq.incidents + 1,
                     service_id  |-> serviceId,
                     title       |-> "Scheduled maintenance",
                     description |-> NULL,
                     status      |-> IF Truthy(status) THEN status ELSE "investigating",
                     severity    |-> "major",
                     started_at  |-> now,
                     resolved_at |-> NULL_INT]}
              /\ seq' = [seq EXCEPT !.incidents = @ + 1]
              /\ http' = [route |-> "incidents-post", status |-> 201, body |-> <<>>]
    /\ UNCHANGED <<env, net, fetches, now, services, templates, status_checks, incident_updates,
                   announcement_reasons, cyc, wk, runsLeft, overlap>>

InitManual ==
    /\ env \in [CRON_SECRET : {"s3cret"}, supabase : BOOLEAN]
    /\ net = EngineNets
    /\ services = EngineServices
    /\ now = 0
    /\ EmptyDb
    /\ NoInvocation
    /\ http = NoRequest
    /\ fetches = <<>>
    /\ runsLeft = MaxRuns
    /\ overlap = FALSE

NextManual == Cycle \/ CreateIncident \/ Tick

SpecManual == InitManual /\ [][NextManual]_vars

(***************************************************************************)
(* The claim specification: one scheduled cycle over more targets than     *)
(* workers, each target up: every worker takes the operational branch.     *)
(***************************************************************************)
\* One target more than the pool has workers.
ClaimTargets == poolSize + 1

\* Every target answers 200 after 100 ms.
UpNets == {<<FetchOk(200, 100), NoFetch>>}

InitClaim ==
    /\ env = [CRON_SECRET |-> "s3cret", supabase |-> FALSE]
    /\ net = UpNets
    /\ \E n \in 0..ClaimTargets :
         services = [s \in 1..ClaimTargets |->
                       [name |-> "svc" \o ToString(s), is_active |-> s <= n,
                        check_interval |-> DefaultCheckInterval]]
    /\ now = 0
    /\ EmptyDb
    /\ NoInvocation
    /\ http = NoRequest
    /\ fetches = <<>>
    /\ runsLeft = 1
    /\ overlap = FALSE

NextClaim ==
    \/ StartCycle("c1", ScheduledPost) /\ InIdOrder(cyc'["c1"].svcs)
    \/ \E w \in 1..poolSize : ProbeReturns("c1", w)
    \/ \E w \in 1..poolSize : Resolve("c1", w)
    \/ BatchInsert("c1")
    \/ Cleanup("c1")

SpecClaim == InitClaim /\ [][NextClaim]_vars

(***************************************************************************)
(* The fetch specification: the calls of fetch inside one probe, for every *)
(* outcome of the GET and of the HEAD.                                     *)
(***************************************************************************)
\* fetch(url, { method: "GET", ... }) at the start of the probe.
FetchGet(c, w) ==
    /\ cyc[c].pc = "workers"
    /\ w \in DOMAIN wk[c]
    /\ wk[c][w].pc = "probe"
    /\ fetches = <<>>
    /\ fetches' = <<"GET">>
    /\ UNCHANGED <<env, net, http, now, services, templates, status_checks, tables, seq,
                   cyc, wk, runsLeft, overlap>>

\* Mutant: the fallback is also taken for a GET answered with a server error.
FetchHead_OnServerError(c, w) ==
    /\ cyc[c].pc = "workers"
    /\ w \in DOMAIN wk[c]
    /\ wk[c][w].pc = "probe"
    /\ fetches = <<"GET">>
    /\ \E n \in net : ~n[1].ok \/ n[1].status >= 500
    /\ fetches' = <<"GET", "HEAD">>
    /\ UNCHANGED <<env, net, http, now, services, templates, status_checks, tables, seq,
                   cyc, wk, runsLeft, overlap>>

\* The GET rejected: the catch block issues fetch(url, { method: "HEAD", ... }).
FetchHead(c, w) ==
    /\ cyc[c].pc = "workers"
    /\ w \in DOMAIN wk[c]
    /\ wk[c][w].pc = "probe"
    /\ fetches = <<"GET">>
    /\ \E n \in net : ~n[1].ok
    /\ fetches' = <<"GET", "HEAD">>
    /\ UNCHANGED <<env, net, http, now, services, templates, status_checks, tables, seq,
                   cyc, wk, runsLeft, overlap>>

\* The probe returns: from the try block when the GET resolved, from the
\* fallback (try or catch) when the HEAD has settled.
FetchSettled(c, w) ==
    /\ \E n \in net : \/ n[1].ok /\ fetches = <<"GET">>
                      \/ ~n[1].ok /\ fetches = <<"GET", "HEAD">>
    /\ ProbeReturns(c, w)

InitFetch == InitProbe

NextFetch ==
    \/ StartCycle("c1", ScheduledPost)
    \/ FetchGet("c1", 1)
    \/ FetchHead("c1", 1)
    \/ FetchSettled("c1", 1)

SpecFetch == InitFetch /\ [][NextFetch]_vars

(***************************************************************************)
(* The pick specification: one cycle that opens an incident for one target *)
(* through Supabase, for every non-empty pool of reason templates the      *)
(* table admits (weight INTEGER DEFAULT 1, without a CHECK constraint).    *)
(***************************************************************************)
\* Rows of announcement_reason_templates: three seeded rows and a row whose
\* weight was set to 0.
PoolTemplates ==
    {[code |-> "POWER_OUTAGE", label |-> "Power outage affecting our data center", weight |-> 3],
     [code |-> "ISP_ISSUE", label |-> "Internet service provider connectivity issue",
      weight |-> 2],
     [code |-> "SSL_CERTIFICATE", label |-> "SSL certificate renewal or update", weight |-> 1],
     [code |-> "CAMPUS_NETWORK", label |-> "Campus network infrastructure disruption",
      weight |-> 0]}

\* The target refuses the connection.
RefusedNets ==
    { <<FetchErr("TypeError", "connect ECONNREFUSED", 20),
        FetchErr("TypeError", "connect ECONNREFUSED", 20)>> }

InitPick ==
    /\ env = [CRON_SECRET |-> "s3cret", supabase |-> TRUE]
    /\ net = RefusedNets
    /\ services = EngineServices
    /\ now = 0
    /\ templates \in SUBSET PoolTemplates
    /\ templates # {}
    /\ status_checks = {}
    /\ incidents = {}
    /\ incident_updates = {}
    /\ announcement_reasons = {}
    /\ seq = [incidents |-> 0, incident_updates |-> 0, status_checks |-> 0]
    /\ NoInvocation
    /\ http = NoRequest
    /\ fetches = <<>>
    /\ runsLeft = 1
    /\ overlap = FALSE

NextPick ==
    \/ StartCycle("c1", ScheduledPost)
    \/ ProbeReturns("c1", 1)
    \/ SelectActive("c1", 1)
    \/ InsertIncident("c1", 1)
    \/ SelectTemplates("c1", 1)
    \/ InsertReason("c1", 1)
    \/ BatchInsert("c1")
    \/ Cleanup("c1")

SpecPick == InitPick /\ [][NextPick]_vars

(***************************************************************************)
(* The two-target failure specification: one invocation over two due       *)
(* targets, each with a worker of its own, in which every statement that   *)
(* goes through `query` may reject, the batch insert and the cleanup       *)
(* included, and every pending await eventually settles.                   *)
(***************************************************************************)
\* The batch insert rejects: the catch block of POST answers 500, nothing is
\* appended and the cleanup is skipped.
BatchInsertThrows(c) ==
    /\ cyc[c].pc = "workers"
    /\ \A w \in DOMAIN wk[c] : wk[c][w].pc = "done"
    /\ Len(cyc[c].collected) > 0
    /\ cyc' = [cyc EXCEPT ![c] = [IdleCycle EXCEPT !.resp = FailedResponse]]
    /\ wk' = [wk EXCEPT ![c] = <<>>]
    /\ UNCHANGED <<env, net, fetches, http, now, services, templates, status_checks, tables, seq,
                   runsLeft, overlap>>

\* SELECT cleanup_old_status_checks() rejects: the catch block answers 500
\* after the batch insert has been committed.
CleanupThrows(c) ==
    /\ cyc[c].pc = "cleanup"
    /\ cyc' = [cyc EXCEPT ![c] = [IdleCycle EXCEPT !.resp = FailedResponse]]
    /\ wk' = [wk EXCEPT ![c] = <<>>]
    /\ UNCHANGED <<env, net, fetches, http, now, services, templates, status_checks, tables, seq,
                   runsLeft, overlap>>

InitFailTwo ==
    /\ env \in [CRON_SECRET : {"s3cret"}, supabase : BOOLEAN]
    /\ net = EngineNets
    /\ services = IsoServices
    /\ now = DefaultCheckInterval
    /\ EmptyDb \/ OpenIncidentDb
    /\ NoInvocation
    /\ http = NoRequest
    /\ fetches = <<>>
    /\ runsLeft = 1
    /\ overlap = FALSE

\* A statement of an invocation fails.
Failure ==
    \/ \E c \in CycleIds, w \in 1..poolSize : StatementThrows(c, w)
    \/ \E c \in CycleIds, w \in 1..poolSize : ErrorIgnored(c, w)
    \/ \E c \in CycleIds, w \in 1..poolSize : SelectTemplatesFails(c, w)
    \/ \E c \in CycleIds : BatchInsertThrows(c)
    \/ \E c \in CycleIds : CleanupThrows(c)
    \/ \E c \in CycleIds : Abandon(c)

NextFailTwo == Cycle \/ Failure

\* Every call that is pending returns or fails: some step of a running
\* invocation is eventually taken.
SpecFailTwo == InitFailTwo /\ [][NextFailTwo]_vars /\ WF_vars(Progress)

(***************************************************************************)
(* Properties.                                                             *)
(***************************************************************************)
Workers == 1..poolSize

\* Worker w of invocation c takes this step.
Acting(c, w) ==
    /\ w \in DOMAIN wk[c]
    /\ w \in DOMAIN wk'[c]
    /\ wk'[c][w] # wk[c][w]

\* Worker w of invocation c finishes the reconciliation of its target in this
\* step: it pushes the target's entry to results.
Completes(c, w) ==
    /\ Acting(c, w)
    /\ Len(cyc'[c].results) = Len(cyc[c].results) + 1

IncidentsOf(s) == {r \in incidents : r.service_id = s}
ReasonsOf(s) == {r \in announcement_reasons : r.service_id = s}
ReasonsFor(id) == {r \in announcement_reasons : r.incident_id = id}
UpdatesFor(id) == {u \in incident_updates : u.incident_id = id}
IncidentIds == {r.id : r \in incidents}

\* A worker has inserted the incident and not yet inserted its reason.
BeingOpened(id) ==
    \E c \in CycleIds : \E w \in DOMAIN wk[c] :
      /\ wk[c][w].incidentId = id
      /\ wk[c][w].pc \in {"selectTemplates", "insertReason"}

\* A worker has resolved the incident and not yet finished its reconciliation.
BeingResolved(id) ==
    \E c \in CycleIds : \E w \in DOMAIN wk[c] :
      /\ id \in wk[c][w].ids
      /\ wk[c][w].pc \in {"deleteReasons", "insertUpdates"}

\* The overlapping cycles reach the databases the serial specification
\* starts from, with no invocation running.
StaleReasonDbReached == StaleReasonDb /\ NoInvocationRunning
TwoActiveDbReached == TwoActiveDb /\ NoInvocationRunning
OpenIncidentDbReached == OpenIncidentDb /\ NoInvocationRunning /\ runsLeft < MaxRuns

\* C1: in every reachable state every target has at most one incident whose
\* status is not 'resolved', for every interleaving of overlapping cycles.
AtMostOneActiveIncident ==
    \A s \in DOMAIN services : Cardinality(ActiveIncidents(s)) <= 1

ResolutionCompleteness ==
    [][\A c \in CycleIds, w \in Workers :
         (Completes(c, w) /\ wk[c][w].res.status = "operational") =>
           /\ ActiveIncidents(wk[c][w].service)' = {}
           /\ \A r \in IncidentsOf(wk[c][w].service)' :
                r.status = "resolved" => r.resolved_at # NULL_INT
           /\ ReasonsOf(wk[c][w].service)' = {}]_vars

\* C4: every incident has at most one announcement_reasons row, keyed to the
\* incident's target, and every non-resolved incident whose opening
\* reconciliation has passed its reason insert has exactly one.
OneReasonPerOpenIncident ==
    \A i \in incidents :
      /\ Cardinality(ReasonsFor(i.id)) <= 1
      /\ \A r \in ReasonsFor(i.id) : r.service_id = i.service_id
      /\ (i.status # "resolved" /\ ~BeingOpened(i.id)) =>
           Cardinality(ReasonsFor(i.id)) = 1

\* Through the Supabase client: an open incident opened by a cycle, with
\* the reason picked from the template pool.
ReasonPersistedWitness ==
    /\ env.supabase
    /\ incidents # {}
    /\ \A i \in incidents :
         /\ i.status = "investigating"
         /\ i.started_at > 0
         /\ ~BeingOpened(i.id)
         /\ \E r \in ReasonsFor(i.id) : r.reason_code = "SSL_CERTIFICATE"

\* C5: no announcement_reasons row references a resolved incident, except
\* while the reconciliation that resolved it is between its UPDATE and the
\* end of its reason delete.
NoReasonForResolvedIncident ==
    \A r \in announcement_reasons :
      \A i \in incidents :
        (i.id = r.incident_id /\ i.status = "resolved") => BeingResolved(i.id)

\* C6: a step adds incident rows only as the insert of a 'down' reconciliation
\* whose SELECT found no active incident; it adds exactly one row, with status
\* 'investigating', severity 'major', title '<name> is down', started_at = now,
\* resolved_at null and the probe's error_message (or the default text) as
\* description; and such a reconciliation always goes on to that insert.
IncidentOpenedAsSpecified ==
    [][/\ (IncidentIds' # IncidentIds) =>
            \E c \in CycleIds : \E w \in DOMAIN wk[c] :
              /\ Acting(c, w)
              /\ wk[c][w].res.status = "down"
              /\ wk[c][w].incidentId = NULL_INT
              /\ \E r \in incidents' :
                   /\ incidents' = incidents \cup {r}
                   /\ r \notin incidents
                   /\ r.id \notin IncidentIds
                   /\ r.service_id = wk[c][w].service
                   /\ r.status = "investigating"
                   /\ r.severity = "major"
                   /\ r.title = services[wk[c][w].service].name \o " is down"
                   /\ r.started_at = now
                   /\ r.resolved_at = NULL_INT
                   /\ r.description =
                        (IF wk[c][w].res.error_message \in {NULL, ""}
                         THEN "Service is not responding"
                         ELSE wk[c][w].res.error_message)
       /\ \A c \in CycleIds, w \in Workers :
            (Acting(c, w) /\ wk[c][w].pc = "selectActive"
               /\ ActiveIncidents(wk[c][w].service) = {}) =>
              wk'[c][w].pc = "insertIncident"
       /\ \A c \in CycleIds, w \in Workers :
            (Acting(c, w) /\ wk[c][w].pc = "insertIncident") =>
              Cardinality(IncidentIds' \ IncidentIds) = 1]_vars

\* An incident opened after the clock advanced, for an unreachable target.
IncidentOpenedWitness ==
    \E i \in incidents :
      /\ i.status = "investigating"
      /\ i.severity = "major"
      /\ i.title = "TCIOE Main Website is down"
      /\ i.description = "Connection refused"
      /\ i.started_at = DefaultCheckInterval
      /\ i.resolved_at = NULL_INT

\* C7: every incident has at most one 'restored' update and no other update,
\* an unresolved incident has none, a resolved incident whose resolving
\* reconciliation has finished has exactly one, and no incident is being
\* resolved by two workers.
OneRestoredUpdatePerIncident ==
    /\ \A i \in incidents :
         /\ Cardinality(UpdatesFor(i.id)) <= 1
         /\ \A u \in UpdatesFor(i.id) :
              u.message = RestoredMessage /\ u.status = "resolved"
         /\ i.status # "resolved" => UpdatesFor(i.id) = {}
         /\ (i.status = "resolved" /\ ~BeingResolved(i.id)) =>
              Cardinality(UpdatesFor(i.id)) = 1
    /\ \A c, d \in CycleIds : \A w \in DOMAIN wk[c], v \in DOMAIN wk[d] :
         (<<c, w>> # <<d, v>>
            /\ wk[c][w].pc \in {"deleteReasons", "insertUpdates"}
            /\ wk[d][v].pc \in {"deleteReasons", "insertUpdates"}) =>
           wk[c][w].ids \cap wk[d][v].ids = {}

\* Two overlapping cycles both found the target operational and both ran
\* the resolving UPDATE; the open incident was resolved by one of them and
\* has its single update.
BothObservedOperationalWitness ==
    /\ cyc["c1"].pc = "workers"
    /\ cyc["c2"].pc = "workers"
    /\ \A c \in CycleIds :
         /\ DOMAIN wk[c] = {1}
         /\ wk[c][1].res.status = "operational"
         /\ wk[c][1].pc = "done"
    /\ \E c \in CycleIds : wk[c][1].ids = {1}
    /\ \E c \in CycleIds : wk[c][1].ids = {}
    /\ \E i \in incidents :
         i.id = 1 /\ i.status = "resolved" /\ Cardinality(UpdatesFor(1)) = 1

\* C8: a step of a worker whose probe result is 'degraded' changes nothing in
\* incidents, incident_updates or announcement_reasons; a step that adds an
\* incident is taken for a 'down' result and a step that resolves one is
\* taken for an 'operational' result.
DegradedChangesNothing ==
    [][\A c \in CycleIds, w \in Workers :
         Acting(c, w) =>
           /\ (wk[c][w].res.status = "degraded" \/ wk'[c][w].res.status = "degraded") =>
                UNCHANGED tables
           /\ IncidentIds' # IncidentIds => wk[c][w].res.status = "down"
           /\ (\E i \in incidents : \E j \in incidents' :
                 i.id = j.id /\ i.status # "resolved" /\ j.status = "resolved") =>
                wk[c][w].res.status = "operational"]_vars

\* A 'degraded' result was reconciled while the target had an open incident,
\* which is still open.
DegradedWitness ==
    \E c \in CycleIds : \E w \in DOMAIN wk[c] :
      /\ wk[c][w].pc = "done"
      /\ wk[c][w].res.status = "degraded"
      /\ ActiveIncidents(wk[c][w].service) # {}
      /\ ReasonsOf(wk[c][w].service) # {}

\* The services of a running invocation, as a set.
Selected(c) == Range(cyc[c].svcs)

ChecksOf(s) == {r \in status_checks : r.service_id = s}

\* C9: in a non-forced cycle the targets selected are exactly the active
\* targets with no status check or with every status check at least
\* check_interval seconds old; with check_interval 420, a target last checked
\* 421 or 420 seconds ago is selected and one checked 419 seconds ago is not.
DueSelection ==
    \A c \in CycleIds :
      (cyc[c].pc = "workers" /\ ~cyc[c].force) =>
        /\ Len(cyc[c].svcs) = Cardinality(Selected(c))
        /\ Selected(c) =
             {s \in DOMAIN services :
                /\ services[s].is_active
                /\ \A r \in ChecksOf(s) : r.checked_at + services[s].check_interval <= now}
        /\ \A s \in DOMAIN services :
             (services[s].is_active /\ services[s].check_interval = 420 /\ ChecksOf(s) # {}) =>
               LET age == now - SetMax({r.checked_at : r \in ChecksOf(s)})
               IN  /\ age = 419 => s \notin Selected(c)
                   /\ age \in {420, 421} => s \in Selected(c)

\* A scheduled cycle selected a target last checked exactly 420 seconds ago
\* and left out an active target checked 419 seconds ago and an inactive one.
DueSelectionWitness ==
    /\ cyc["c1"].pc = "workers"
    /\ ~cyc["c1"].force
    /\ \E s \in Selected("c1") :
         /\ services[s].check_interval = 420
         /\ {now - r.checked_at : r \in ChecksOf(s)} = {420, 421}
    /\ \E s \in DOMAIN services \ Selected("c1") :
         /\ services[s].is_active
         /\ 419 \in {now - r.checked_at : r \in ChecksOf(s)}

\* The request forces the cycle: x-force-check '1' or 'true' on POST, the
\* force parameter on GET, or the force/[secret] route.
ForcingRequest(req) ==
    \/ req.route = "POST" /\ req.xForceCheck \in {"1", "true"}
    \/ req.route = "GET" /\ req.forceParam \in {"1", "true"}
    \/ req.route = "FORCE"

\* C10: in a forced cycle the targets probed are exactly the targets with
\* is_active = true, whatever their last check time and check_interval.
ForcedSelection ==
    \A c \in CycleIds :
      (cyc[c].pc = "workers" /\ ForcingRequest(cyc[c].req)) =>
        /\ Len(cyc[c].svcs) = Cardinality(Selected(c))
        /\ Selected(c) = {s \in DOMAIN services : services[s].is_active}
        /\ {wk[c][w].service : w \in DOMAIN wk[c]} = Selected(c)

\* The force/[secret] route started a cycle that probes a target checked 419
\* seconds ago, and an inactive target exists.
ForcedSelectionWitness ==
    /\ cyc["c1"].pc = "workers"
    /\ cyc["c1"].req.route = "FORCE"
    /\ \E s \in Selected("c1") : 419 \in {now - r.checked_at : r \in ChecksOf(s)}
    /\ \E s \in DOMAIN services : ~services[s].is_active

\* The probes of invocation c that are in flight.
InFlight(c) == {w \in DOMAIN wk[c] : wk[c][w].pc = "probe"}

\* C11: within a cycle, at every instant at most poolSize (5) probes are in
\* flight, and at most as many as the cycle has due targets; a target is
\* claimed by at most one worker at a time.
ProbesInFlightBounded ==
    \A c \in CycleIds :
      /\ Cardinality(InFlight(c)) <= 5
      /\ Cardinality(InFlight(c)) <= Len(cyc[c].svcs)
      /\ Cardinality(DOMAIN wk[c]) <= 5
      /\ \A w, v \in InFlight(c) : w # v => wk[c][w].service # wk[c][v].service

\* More than five targets are due, one probe has returned, its worker has
\* claimed the sixth target, and five probes are in flight.
PoolSaturatedWitness ==
    /\ Len(cyc["c1"].svcs) > 5
    /\ cyc["c1"].i = 6
    /\ Len(cyc["c1"].results) = 1
    /\ Cardinality(InFlight("c1")) = 5

\* The entries of a sequence of records, as a set.
Entries(seqn) == {seqn[k] : k \in 1..Len(seqn)}

\* C12: a probe that fails at the transport level (no status code) is
\* recorded as 'down' and its worker goes on; when all workers of a cycle are
\* done every selected target has its entry in the result list; and a cycle
\* that responded did so with success, one result per due target, the 'down'
\* targets having an open incident and the 'operational' ones none.
ProbeFailureIsolation ==
    \A c \in CycleIds :
      /\ \A e \in Entries(cyc[c].collected) :
           e.status_code = NULL_INT => e.status = "down"
      /\ (cyc[c].pc = "workers" /\ \A w \in DOMAIN wk[c] : wk[c][w].pc = "done") =>
           /\ Len(cyc[c].results) = Len(cyc[c].svcs)
           /\ {e.service : e \in Entries(cyc[c].results)} =
                {services[s].name : s \in Range(cyc[c].svcs)}
           /\ \A k \in 1..Len(cyc[c].collected) :
                \E e \in Entries(cyc[c].results) :
                  /\ e.service = cyc[c].collected[k].name
                  /\ e.status = cyc[c].collected[k].status
      /\ cyc[c].resp.status \in {0, 200, 401}
      /\ cyc[c].resp.status = 200 =>
           /\ cyc[c].resp.success
           /\ cyc[c].resp.checked = Cardinality(DOMAIN services)
           /\ \A s \in DOMAIN services :
                \E e \in Entries(cyc[c].results) :
                  /\ e.service = services[s].name
                  /\ e.status \in {"down", "operational"}
                  /\ e.status = "down" <=> ActiveIncidents(s) # {}
                  /\ \E r \in status_checks :
                       r.service_id = s /\ r.checked_at = now /\ r.status = e.status

\* A cycle responded with success after the probe of one target timed out
\* and the probe of another target found it up.
OneFailedOneUpWitness ==
    /\ cyc["c1"].resp.status = 200
    /\ \E e \in Entries(cyc["c1"].results) :
         e.status = "down" /\ e.response_time = NULL_INT
    /\ \E e \in Entries(cyc["c1"].results) : e.status = "operational"

\* The reconciliation of worker w has written part of an open or of a
\* resolve: it inserted its incident and not yet the reason, or it resolved
\* incidents and has not yet deleted their reasons and inserted their updates.
PartiallyApplied(c, w) ==
    \/ /\ wk[c][w].pc \in {"selectTemplates", "insertReason"}
       /\ wk[c][w].incidentId \in IncidentIds
    \/ /\ wk[c][w].pc \in {"deleteReasons", "insertUpdates"}
       /\ \E i \in incidents : i.id \in wk[c][w].ids /\ i.status = "resolved"

\* C13: a failing insert, update or delete of a reconciliation ends that
\* reconciliation, makes the invocation answer with a non-2xx status, and
\* finds nothing of the open or resolve already written.
PersistenceFailureIsFatal ==
    [][\A c \in CycleIds, w \in Workers :
         (StatementThrows(c, w) \/ ErrorIgnored(c, w)) =>
           /\ wk'[c][w].pc = "threw"
           /\ cyc'[c].resp.status >= 300
           /\ ~PartiallyApplied(c, w)]_vars

\* An invocation answered 500 and is over; the incident it opened is left
\* without a reason row.
PartialOpenWitness ==
    /\ NoInvocationRunning
    /\ \E c \in CycleIds : cyc[c].resp.status = 500
    /\ \E i \in incidents : i.status = "investigating" /\ ReasonsFor(i.id) = {}

\* C14: when the template lookup is not possible (Supabase not configured),
\* fails, or returns no rows, the incident is already inserted, the worker
\* goes on to the reason insert with 'SERVER' / 'Server maintenance or
\* outage', and the insert persists the worker's reason for its incident.
DefaultReasonFallback ==
    [][\A c \in CycleIds, w \in Workers :
         /\ (\/ SelectTemplatesFails(c, w)
             \/ SelectTemplates(c, w) /\ templates = {}
             \/ InsertIncident(c, w) /\ ~env.supabase) =>
              /\ wk'[c][w].pc = "insertReason"
              /\ wk'[c][w].reason.code = "SERVER"
              /\ wk'[c][w].reason.text = "Server maintenance or outage"
              /\ \E i \in incidents' :
                   i.id = wk'[c][w].incidentId /\ i.status = "investigating"
         /\ InsertReason(c, w) =>
              \E r \in announcement_reasons' :
                /\ r.incident_id = wk[c][w].incidentId
                /\ r.service_id = wk[c][w].service
                /\ r.reason_code = wk[c][w].reason.code
                /\ r.reason_text = wk[c][w].reason.text]_vars

\* Supabase is configured and the pool has rows, the lookup failed, and the
\* open incident has the default reason.
LookupFailedWitness ==
    /\ env.supabase
    /\ templates # {}
    /\ \E i \in incidents :
         /\ i.status = "investigating"
         /\ i.started_at > 0
         /\ \E r \in ReasonsFor(i.id) :
              r.reason_code = "SERVER" /\ r.reason_text = "Server maintenance or outage"

\* The request carries the configured shared secret: as bearer token on POST,
\* as ?secret= on GET, as path segment on the force route.
CarriesSecret(req) ==
    /\ Truthy(env.CRON_SECRET)
    /\ \/ req.route = "POST" /\ req.authorization = "Bearer " \o env.CRON_SECRET
       \/ req.route \in {"GET", "FORCE"} /\ req.secret = env.CRON_SECRET

\* C15: a trigger request that does not carry the correct shared secret is
\* answered 401, starts no worker and selects no target, and leaves every
\* table as it was, whether CRON_SECRET is set, empty or unset.
UnauthorizedIsRejected ==
    [][\A req \in AuthRequests :
         (StartCycle("c1", req) /\ ~CarriesSecret(req)) =>
           /\ cyc'["c1"].resp.status = 401
           /\ cyc'["c1"].pc = "idle"
           /\ wk'["c1"] = <<>>
           /\ UNCHANGED <<status_checks, tables, seq, runsLeft>>]_vars

\* CRON_SECRET is not set and a POST without Authorization header has
\* started a cycle whose workers are probing.
UnauthenticatedCycleWitness ==
    /\ ~Truthy(env.CRON_SECRET)
    /\ cyc["c1"].pc = "workers"
    /\ cyc["c1"].req.route = "POST"
    /\ cyc["c1"].req.authorization = NULL
    /\ InFlight("c1") # {}

\* The status checks recorded more than 30 days before now.
Overdue == {r \in status_checks : r.checked_at < now - 30 * 24 * 60 * 60}

\* C16: a step that runs the retention sweep (the cleanup call of a cycle, or
\* the batch insert with its trigger) leaves no status check older than 30
\* days, and leaves every status check that is at most 30 days old, the one
\* exactly 30 days old included, in the table as it was.
RetentionSweepExact ==
    [][\A c \in CycleIds :
         (Cleanup(c) \/ (BatchInsert(c) /\ Len(cyc[c].collected) > 0)) =>
           /\ Overdue' = {}
           /\ \A r \in status_checks \ Overdue : r \in status_checks']_vars

\* A cycle ran at the start time: the check recorded 30 days and one second
\* ago is gone, the one recorded exactly 30 days ago and the younger one are
\* still there, next to the cycle's own.
SweptWitness ==
    /\ now = RetentionStart
    /\ NoInvocationRunning
    /\ \E c \in CycleIds : cyc[c].resp.status = 200
    /\ {r.checked_at : r \in status_checks} = {1, 2, now}

\* C17: a status check older than 30 days is eventually deleted as time
\* advances, whether or not a cycle is invoked.
OverdueEventuallyDeleted == (Overdue # {}) ~> (Overdue = {})

\* Days have passed without any cycle and the three status checks, all older
\* than 30 days by now, are still in the table.
NeverSweptWitness ==
    /\ now = RetentionStart + MaxDays * Day
    /\ runsLeft = MaxRuns
    /\ Overdue = RetentionChecks

\* The probe of the probe specification has returned; its input (the outcomes
\* of GET and HEAD) and its result as pushed to collected.
Probed == Len(cyc["c1"].collected) = 1
ProbeGet == (CHOOSE n \in net : TRUE)[1]
ProbeHead == (CHOOSE n \in net : TRUE)[2]
ProbeResult == cyc["c1"].collected[1]

\* C18: the result of a probe whose GET resolved follows the table:
\* (200, 100 ms) operational without message; (200, 3000 ms) degraded 'Slow
\* response'; 503 down 'Server error (503)'; 404 degraded 'Page not found
\* (404)'; 401 and 403 operational without message; 429 degraded 'Rate limited
\* (429)'; a 2xx after exactly 2500 ms operational, after 2501 ms degraded.
ClassificationTable ==
    (Probed /\ ProbeGet.ok) =>
      LET code == ProbeGet.status
          ms == ProbeGet.ms
          r == ProbeResult
      IN  /\ r.status_code = code
          /\ r.response_time = ms
          /\ (code = 200 /\ ms = 100) =>
               r.status = "operational" /\ r.error_message = NULL
          /\ (code = 200 /\ ms = 3000) =>
               r.status = "degraded" /\ r.error_message = "Slow response"
          /\ code = 503 => r.status = "down" /\ r.error_message = "Server error (503)"
          /\ code = 404 => r.status = "degraded" /\ r.error_message = "Page not found (404)"
          /\ code \in {401, 403} => r.status = "operational" /\ r.error_message = NULL
          /\ code = 429 => r.status = "degraded" /\ r.error_message = "Rate limited (429)"
          /\ (code \in 200..299 /\ ms = 2500) =>
               r.status = "operational" /\ r.error_message = NULL
          /\ (code \in 200..299 /\ ms = 2501) =>
               r.status = "degraded" /\ r.error_message = "Slow response"

\* A 2xx other than 200 answered after exactly 2500 ms and is operational.
AtSlowLimitWitness ==
    /\ Probed
    /\ ProbeGet.ok
    /\ ProbeGet.status = 204
    /\ ProbeGet.ms = 2500
    /\ ProbeResult.status = "operational"

\* C19: for every status code the result is 'down' exactly for 500..599;
\* 4xx other than 401, 403, 404, 429 is degraded 'Client error (code)'; 3xx is
\* operational; a code below 200 or above 599 is degraded 'Unexpected status
\* (code)'.
ClassificationPartition ==
    (Probed /\ ProbeGet.ok) =>
      LET code == ProbeGet.status
          r == ProbeResult
      IN  /\ r.status \in {"operational", "degraded", "down"}
          /\ r.status = "down" <=> code \in 500..599
          /\ code \in 500..599 =>
               r.error_message = "Server error (" \o ToString(code) \o ")"
          /\ code \in (400..499) \ {401, 403, 404, 429} =>
               /\ r.status = "degraded"
               /\ r.error_message = "Client error (" \o ToString(code) \o ")"
          /\ code \in 300..399 => r.status = "operational" /\ r.error_message = NULL
          /\ (code < 200 \/ code > 599) =>
               /\ r.status = "degraded"
               /\ r.error_message = "Unexpected status (" \o ToString(code) \o ")"

\* A response with status code 600 was classified 'down' as a server error.
Status600Witness ==
    /\ Probed
    /\ ProbeResult.status_code = 600
    /\ ProbeResult.status = "down"
    /\ ProbeResult.error_message = "Server error (600)"

\* The message that names the cause of a rejected fetch.
CauseOf(e) ==
    IF e.name = "AbortError" THEN "Request timeout (>10s)"
    ELSE IF e.message = "getaddrinfo ENOTFOUND host" THEN "Domain not found (DNS error)"
    ELSE IF e.message = "connect ECONNREFUSED" THEN "Connection refused"
    ELSE IF e.message = "" THEN "Connection failed"
    ELSE e.message

\* C20: when the GET and the HEAD both fail the result is 'down' without
\* status code, its error_message names the cause of one of the two failures,
\* response_time is the elapsed time when neither failure was a timeout and
\* null when the failure that ended the probe (the HEAD's) was a timeout.
BothAttemptsFailed ==
    (Probed /\ ~ProbeGet.ok /\ ~ProbeHead.ok) =>
      LET r == ProbeResult
      IN  /\ r.status = "down"
          /\ r.status_code = NULL_INT
          /\ r.error_message \in {CauseOf(ProbeGet), CauseOf(ProbeHead)}
          /\ (ProbeGet.name # "AbortError" /\ ProbeHead.name # "AbortError") =>
               r.response_time = ProbeGet.ms + ProbeHead.ms
          /\ ProbeHead.name = "AbortError" => r.response_time = NULL_INT

\* The GET was refused, the HEAD timed out, and the result carries an
\* elapsed time and the message of a refused connection.
RefusedThenTimeoutWitness ==
    /\ Probed
    /\ ProbeGet.message = "connect ECONNREFUSED"
    /\ ProbeHead.name = "AbortError"
    /\ ProbeResult.response_time = 5020
    /\ ProbeResult.error_message = "Connection refused"


\* C21: a probe never raises to its caller: the awaited probe always returns,
\* no worker and no invocation ends in the catch of the handler, the status of
\* every result is operational, degraded or down, and when both the GET and
\* the HEAD attempt reject the result is 'down' with an error_message.
ProbeNeverRaises ==
    /\ \A w \in DOMAIN wk["c1"] :
         /\ wk["c1"][w].pc # "threw"
         /\ wk["c1"][w].pc = "probe" => ENABLED ProbeReturns("c1", w)
    /\ cyc["c1"].resp.status # 500
    /\ Probed =>
         /\ ProbeResult.status \in {"operational", "degraded", "down"}
         /\ (~ProbeGet.ok /\ ~ProbeHead.ok) =>
              /\ ProbeResult.status = "down"
              /\ ProbeResult.error_message # NULL
              /\ ProbeResult.error_message # ""

\* Both attempts failed on DNS and the probe returned a 'down' result.
DnsFailureReportedWitness ==
    /\ Probed
    /\ ProbeGet.message = "getaddrinfo ENOTFOUND host"
    /\ ProbeHead.message = "getaddrinfo ENOTFOUND host"
    /\ ProbeResult.status = "down"
    /\ ProbeResult.error_message = "Domain not found (DNS error)"


\* C22: a successful cycle has one results entry {service, status,
\* response_time} per selected target, appends one status check per selected
\* target with the status and response time of that entry, and returns
\* checked = the number of selected targets.
CycleReport ==
    [][\A c \in CycleIds :
         LET C == cyc[c]
             new == {r \in status_checks' : r.id > seq.status_checks}
         IN  /\ BatchInsert(c) =>
                  /\ Len(C.results) = Len(C.svcs)
                  /\ Cardinality(new) = Len(C.svcs)
                  /\ status_checks' \ new = status_checks
                  /\ \A k \in 1..Len(C.svcs) :
                       LET s == C.svcs[k]
                           entries == {j \in 1..Len(C.results) :
                                         C.results[j].service = services[s].name}
                           rows == {r \in new : r.service_id = s}
                       IN  /\ Cardinality(entries) = 1
                           /\ Cardinality(rows) = 1
                           /\ \A j \in entries, r \in rows :
                                /\ r.status = C.results[j].status
                                /\ r.response_time = C.results[j].response_time
             /\ Cleanup(c) =>
                  /\ cyc'[c].resp =
                       [status |-> 200, success |-> TRUE, checked |-> Len(C.svcs)]
                  /\ cyc'[c].results = C.results
                  /\ Len(C.results) = Len(C.svcs)
                  /\ status_checks' = status_checks]_vars

\* A cycle over two targets, both unreachable, has returned checked = 2 and
\* left two more status checks.
TwoCheckedWitness ==
    /\ cyc["c1"].resp = [status |-> 200, success |-> TRUE, checked |-> 2]
    /\ Len(cyc["c1"].results) = 2
    /\ \A j \in 1..2 : cyc["c1"].results[j].status = "down"
    /\ Cardinality({r \in status_checks : r.checked_at = now /\ r.status = "down"}) = 2


\* C23: the service listing has one row per active service; its
\* current_status is the status of a status check of the service with the
\* greatest checked_at, or 'unknown' when the service has none, and its
\* active_incidents is the number of the service's incidents whose status is
\* not 'resolved'.
ListingIsCurrent ==
    http.route = "services" =>
      /\ http.status = 200
      /\ \A s \in DOMAIN services :
           Cardinality({k \in 1..Len(http.body) : http.body[k].id = s})
             = IF services[s].is_active THEN 1 ELSE 0
      /\ \A k \in 1..Len(http.body) :
           LET row == http.body[k]
               mine == {r \in status_checks : r.service_id = row.id}
               latest == SetMax({r.checked_at : r \in mine})
           IN  /\ mine = {} => row.current_status = "unknown"
               /\ mine # {} =>
                    \E r \in mine : r.checked_at = latest /\ r.status = row.current_status
               /\ row.active_incidents =
                    Cardinality({i \in incidents :
                                   i.service_id = row.id /\ i.status # "resolved"})

\* A listed service whose older check was 'down' and whose latest check is
\* 'operational', with one incident being monitored.
ListedAfterRecoveryWitness ==
    /\ http.route = "services"
    /\ \E k \in 1..Len(http.body) :
         /\ http.body[k].current_status = "operational"
         /\ http.body[k].active_incidents = 1
         /\ \E r \in status_checks :
              /\ r.service_id = http.body[k].id
              /\ r.status = "down"
              /\ r.checked_at = 0
         /\ \E i \in incidents :
              i.service_id = http.body[k].id /\ i.status = "monitoring"


\* C24: a step that answers a 'report this as down' submission leaves
\* incidents, incident_updates, announcement_reasons and status_checks
\* unchanged, for every request body.
ReportChangesNothing ==
    [][(http' # http /\ http'.route = "report-down") =>
         /\ incidents' = incidents
         /\ incident_updates' = incident_updates
         /\ announcement_reasons' = announcement_reasons
         /\ status_checks' = status_checks]_vars

\* A report was accepted while a cycle was running and the target has no
\* incident.
ReportedWithoutIncidentWitness ==
    /\ http.route = "report-down"
    /\ http.status = 200
    /\ Running("c1")
    /\ incidents = {}


\* C25: a service created without an explicit check_interval, through the
\* services endpoint or through an INSERT that leaves the column to the
\* schema, has check_interval = 420 seconds.
CreatedWithDefaultInterval ==
    (http.route \in {"services-post", "sql-insert"} /\ Len(http.body) = 1) =>
      (~http.body[1].given => services[http.body[1].id].check_interval = 420)

\* The endpoint created a service from a body without check_interval and the
\* row has check_interval 300.
CreatedWith300Witness ==
    /\ http.route = "services-post"
    /\ http.status = 201
    /\ ~http.body[1].given
    /\ services[http.body[1].id].check_interval = 300


\* The statuses of the status checks in the order of their insertion.
History ==
    [k \in 1..Cardinality(status_checks) |->
       (CHOOSE r \in status_checks :
          Cardinality({q \in status_checks : q.id <= r.id}) = k).status]

\* C26: for a target with no history, after a first cycle whose probe is
\* 'down' the database holds one status check, one incident
\* (investigating/major) and its one reason; after a following cycle whose
\* probe is 'operational' it holds a second status check, that incident
\* resolved with resolved_at set, exactly one incident update, and no reason.
DownThenOperationalScenario ==
    (NoInvocationRunning /\ seq.status_checks = Cardinality(status_checks)) =>
      /\ History = <<"down">> =>
           /\ Cardinality(incidents) = 1
           /\ \A i \in incidents :
                /\ i.service_id = 1
                /\ i.status = "investigating"
                /\ i.severity = "major"
                /\ i.resolved_at = NULL_INT
                /\ Cardinality(ReasonsFor(i.id)) = 1
           /\ Cardinality(announcement_reasons) = 1
           /\ incident_updates = {}
      /\ History = <<"down", "operational">> =>
           /\ Cardinality(incidents) = 1
           /\ \A i \in incidents :
                /\ i.service_id = 1
                /\ i.status = "resolved"
                /\ i.severity = "major"
                /\ i.resolved_at # NULL_INT
                /\ i.resolved_at >= i.started_at
                /\ Cardinality(UpdatesFor(i.id)) = 1
           /\ Cardinality(incident_updates) = 1
           /\ announcement_reasons = {}

\* Both cycles of the scenario have run, the second a check interval after
\* the first.
ScenarioCompleteWitness ==
    /\ NoInvocationRunning
    /\ History = <<"down", "operational">>
    /\ \E a, b \in status_checks :
         a.checked_at = 0 /\ b.checked_at = DefaultCheckInterval
    /\ \E i \in incidents : i.status = "resolved" /\ i.resolved_at = DefaultCheckInterval
    /\ announcement_reasons = {}


\* C27: the engine writes the statuses 'investigating' (on insert) and
\* 'resolved' (on close) only; a resolved incident is never changed by a
\* later step, a later 'down' adds a new incident; and resolved_at is set
\* exactly when the status is 'resolved'.
EngineIncidentLifecycle ==
    [][/\ \A i \in incidents : i.status = "resolved" => i \in incidents'
       /\ \A j \in incidents' :
            \/ j \in incidents
            \/ /\ j.id \notin IncidentIds
               /\ j.status = "investigating"
               /\ j.resolved_at = NULL_INT
            \/ /\ j.status = "resolved"
               /\ j.resolved_at = now
               /\ \E i \in incidents :
                    /\ i.status # "resolved"
                    /\ j = [i EXCEPT !.status = "resolved", !.resolved_at = now]
       /\ \A j \in incidents' :
            /\ j.status \in {"investigating", "resolved"}
            /\ j.status = "resolved" <=> j.resolved_at # NULL_INT]_vars

\* After the engine resolved an incident a later 'down' opened a second one;
\* the first is still resolved.
ReopenedAsNewWitness ==
    \E i, j \in incidents :
      /\ i.service_id = j.service_id
      /\ i.id < j.id
      /\ i.status = "resolved"
      /\ j.status = "investigating"
      /\ j.started_at >= i.resolved_at


\* C28: an incident in any status other than 'resolved' ('investigating',
\* 'identified', 'monitoring') is active: a 'down' reconciliation whose
\* SELECT runs while its target has such an incident creates no incident, and
\* the UPDATE of an 'operational' reconciliation resolves every such incident
\* of its target.
NonResolvedIsActive ==
    [][\A c \in CycleIds, w \in Workers :
         /\ SelectActive(c, w) =>
              LET open == {i \in incidents :
                             i.service_id = wk[c][w].service /\ i.status # "resolved"}
              IN  open # {} =>
                    /\ incidents' = incidents
                    /\ wk'[c][w].pc # "insertIncident"
                    /\ wk'[c][w].incidentId \in {i.id : i \in open}
         /\ Resolve(c, w) =>
              \A i \in incidents :
                (i.service_id = wk[c][w].service /\ i.status # "resolved") =>
                  [i EXCEPT !.status = "resolved", !.resolved_at = now] \in incidents'
         /\ InsertIncident(c, w) => wk[c][w].incidentId = NULL_INT]_vars

\* A worker that found its target down has finished with the id of the
\* target's only incident, which was created by hand as 'monitoring'.
ManualIncidentFoundWitness ==
    /\ Cardinality(incidents) = 1
    /\ \E i \in incidents :
         /\ i.status = "monitoring"
         /\ \E w \in DOMAIN wk["c1"] :
              /\ wk["c1"][w].pc = "done"
              /\ wk["c1"][w].res.status = "down"
              /\ wk["c1"][w].incidentId = i.id


\* The workers of the cycle that hold a target: probing or reconciling it.
Holding(c) == {w \in DOMAIN wk[c] : wk[c][w].pc # "done"}

\* C29: within one cycle every selected target is claimed by exactly one
\* worker: at no time do two workers hold the same target, no target is
\* probed or reported twice, the targets claimed so far are exactly
\* services[0..i-1], and when the workers are done every target has been
\* probed and reported once.
EveryTargetClaimedOnce ==
    LET C == cyc["c1"]
        W == wk["c1"]
        ids(q) == {q[k].id : k \in 1..Len(q)}
        names(q) == {q[k].service : k \in 1..Len(q)}
    IN  /\ C.pc = "workers" =>
             /\ \A a, b \in Holding("c1") : a # b => W[a].service # W[b].service
             /\ Cardinality(ids(C.collected)) = Len(C.collected)
             /\ Cardinality(names(C.results)) = Len(C.results)
             /\ Len(C.results) + Cardinality(Holding("c1")) = C.i
             /\ \A k \in 1..Len(C.svcs) :
                  LET s == C.svcs[k]
                      held == \E w \in Holding("c1") : W[w].service = s
                      reported == services[s].name \in names(C.results)
                      probed == s \in ids(C.collected)
                  IN  /\ k <= C.i <=> (held \/ reported)
                      /\ ~(held /\ reported)
                      /\ reported => probed
                      /\ probed => k <= C.i
        /\ C.pc = "cleanup" =>
             /\ Len(C.collected) = Len(C.svcs)
             /\ Len(C.results) = Len(C.svcs)
             /\ ids(C.collected) = Range(C.svcs)
             /\ names(C.results) = {services[s].name : s \in Range(C.svcs)}

\* Six targets and five workers: the worker that finished first has claimed
\* the sixth target while the other four still probe theirs.
SixthClaimedWitness ==
    /\ cyc["c1"].pc = "workers"
    /\ Len(cyc["c1"].svcs) = 6
    /\ Len(cyc["c1"].results) = 1
    /\ Cardinality(Holding("c1")) = 5
    /\ \E w \in Holding("c1") : wk["c1"][w].service = cyc["c1"].svcs[6]


\* A row of incidents without its id and timestamps.
Shape(i) ==
    [title |-> i.title, description |-> i.description, status |-> i.status,
     severity |-> i.severity, resolved |-> i.resolved_at # NULL_INT]

\* The status checks appended by the cycle of the isolation specification
\* (checked at `now`), and whether the cycle started on the database with
\* the open incident of the first service (whose check is older).
Appended(s) == {r \in status_checks : r.service_id = s /\ r.checked_at = now}
StartedOpen(s) == s = 1 /\ \E r \in status_checks : r.checked_at < now

\* C30: for a cycle over distinct targets the final incidents, incident
\* updates and announcement reasons (without ids, timestamps and the random
\* pick of the reason) are determined by the database the cycle started on
\* and the status checks it appended, one per target, whatever the order in
\* which the probes completed and the workers interleaved.
OutcomeIsOrderIndependent ==
    (cyc["c1"].pc = "idle" /\ cyc["c1"].resp.status = 200) =>
      \A s \in Range(LET q == cyc["c1"].results
                     IN  [k \in 1..Len(q) |->
                            CHOOSE t \in DOMAIN services : services[t].name = q[k].service]) :
        /\ Cardinality(Appended(s)) = 1
        /\ \A r \in Appended(s) :
             LET was == Shape(NewIncident(0, s, services[s].name, "Connection refused"))
                 new == Shape(NewIncident(0, s, services[s].name, r.error_message))
                 updates == {u \in incident_updates :
                               \E i \in IncidentsOf(s) : u.incident_id = i.id}
             IN  /\ Cardinality(IncidentsOf(s)) =
                      IF StartedOpen(s) \/ r.status = "down" THEN 1 ELSE 0
                 /\ {Shape(i) : i \in IncidentsOf(s)} =
                      IF r.status = "down"
                      THEN {IF StartedOpen(s) THEN was ELSE new}
                      ELSE IF StartedOpen(s)
                      THEN {[was EXCEPT !.status = "resolved", !.resolved = TRUE]}
                      ELSE {}
                 /\ Cardinality(ReasonsOf(s)) = IF r.status = "down" THEN 1 ELSE 0
                 /\ \A a \in ReasonsOf(s) : \E i \in IncidentsOf(s) : a.incident_id = i.id
                 /\ Cardinality(updates) =
                      IF r.status = "operational" /\ StartedOpen(s) THEN 1 ELSE 0
                 /\ \A u \in updates : u.status = "resolved" /\ u.message = RestoredMessage

\* The cycle resolved the open incident of the first target and opened an
\* incident for the second, and the probe of the second completed first.
SecondCompletedFirstWitness ==
    /\ cyc["c1"].pc = "idle"
    /\ cyc["c1"].resp.status = 200
    /\ Len(cyc["c1"].results) = 2
    /\ cyc["c1"].results[1].service = services[2].name
    /\ cyc["c1"].results[1].status = "down"
    /\ cyc["c1"].results[2].status = "operational"
    /\ \E i \in IncidentsOf(1) : i.status = "resolved"
    /\ \E i \in IncidentsOf(2) : i.status = "investigating"


\* C31: within a cycle the status checks are appended by one batch insert
\* that holds every collected result and is issued only after every worker
\* has finished; the retention sweep is issued only after that insert, and
\* also when nothing was collected.
AppendThenSweep ==
    [][LET C == cyc["c1"]
           new == {r \in status_checks' : r.id > seq.status_checks}
       IN  /\ status_checks' # status_checks =>
                /\ C.pc = "workers"
                /\ \A w \in DOMAIN wk["c1"] : wk["c1"][w].pc = "done"
                /\ Len(C.collected) = Len(C.svcs)
                /\ Cardinality(new) = Len(C.collected)
                /\ \A k \in 1..Len(C.collected) :
                     \E r \in new : /\ r.service_id = C.collected[k].id
                                    /\ r.status = C.collected[k].status
                /\ cyc'["c1"].pc = "cleanup"
           /\ cyc'["c1"].pc = "cleanup" =>
                \A w \in DOMAIN wk'["c1"] : wk'["c1"][w].pc = "done"
           /\ (C.pc # "idle" /\ cyc'["c1"].resp.status = 200) =>
                /\ C.pc = "cleanup"
                /\ Cleanup("c1")
                /\ Cardinality({r \in status_checks : r.checked_at = now}) = Len(C.collected)
                /\ status_checks' = cleanup_old_status_checks(status_checks)]_vars

\* A cycle with no due target has run its sweep and answered checked = 0.
SweptWithoutResultsWitness ==
    /\ cyc["c1"].pc = "idle"
    /\ cyc["c1"].resp = [status |-> 200, success |-> TRUE, checked |-> 0]
    /\ status_checks = {}


\* C32: a probe issues at most one GET and at most one HEAD; the HEAD is
\* issued only after the GET rejected, never after a GET that was answered
\* with an HTTP status, and nothing is issued after the HEAD.
OneGetThenOneHead ==
    /\ fetches \in {<<>>, <<"GET">>, <<"GET", "HEAD">>}
    /\ Len(fetches) = 2 => ~ProbeGet.ok
    /\ Probed => fetches = IF ProbeGet.ok THEN <<"GET">> ELSE <<"GET", "HEAD">>
    /\ (Probed /\ ProbeGet.ok) => ProbeResult.status_code = ProbeGet.status

\* A GET answered 503 ended the probe as 'down' without a HEAD.
NoHeadAfter503Witness ==
    /\ Probed
    /\ ProbeGet.ok
    /\ ProbeGet.status = 503
    /\ ProbeResult.status = "down"
    /\ fetches = <<"GET">>


\* C33: with a non-empty pool the persisted reason is one of the pool's
\* templates, and a template of weight w occupies exactly w of the equally
\* likely slots of the draw, so a template of weight 0 is never chosen.
WeightedPick ==
    /\ \A ord \in Orderings(templates) :
         /\ \A t \in templates :
              Cardinality({k \in 1..Len(Expand(ord)) : Expand(ord)[k].code = t.code}) = t.weight
         /\ \A k \in 1..Len(Expand(ord)) :
              \E t \in templates : Expand(ord)[k] = [code |-> t.code, text |-> t.label]
    /\ \A r \in announcement_reasons :
         \E t \in templates : /\ r.reason_code = t.code
                              /\ r.reason_text = t.label
                              /\ t.weight >= 1

\* The template of weight 0 is the reason persisted for the new incident.
WeightZeroChosenWitness ==
    /\ \E t \in templates : t.code = "POWER_OUTAGE"
    /\ \E r \in announcement_reasons :
         /\ r.reason_code = "CAMPUS_NETWORK"
         /\ \E i \in incidents : i.id = r.incident_id /\ i.status = "investigating"


\* C34: every invocation that has started its workers eventually sends a
\* response, whatever fails on the way; and a success response is sent
\* only when every selected target has been probed (a collected result)
\* and its reconciliation has run to the end (a results entry, the worker
\* done).
CycleTerminates ==
    /\ \A c \in CycleIds : (cyc[c].pc = "workers") ~> (cyc[c].resp.status \in {200, 500})
    /\ [][\A c \in CycleIds :
            (cyc[c].pc # "idle" /\ cyc'[c].resp.status = 200) =>
              /\ Len(cyc[c].collected) = Len(cyc[c].svcs)
              /\ Len(cyc[c].results) = Len(cyc[c].svcs)
              /\ \A k \in 1..Len(cyc[c].svcs) :
                   /\ \E j \in 1..Len(cyc[c].collected) :
                        cyc[c].collected[j].id = cyc[c].svcs[k]
                   /\ \E j \in 1..Len(cyc[c].results) :
                        cyc[c].results[j].service = services[cyc[c].svcs[k]].name
              /\ \A w \in DOMAIN wk[c] : wk[c][w].pc = "done"
              /\ cyc'[c].resp.checked = Len(cyc[c].svcs)]_vars

\* Both targets were due; the invocation answered success with two results,
\* having opened an incident for the second target.
BothReconciledWitness ==
    /\ cyc["c1"].pc = "idle"
    /\ cyc["c1"].resp = [status |-> 200, success |-> TRUE, checked |-> 2]
    /\ \E i \in incidents : i.service_id = 2 /\ i.status = "investigating"
    /\ \E r \in status_checks : r.service_id = 2 /\ r.checked_at = now


\* C35: when a non-forced invocation selects a target as due, no other
\* non-forced invocation that is still running has selected the same
\* target, and every recorded result of the target is at least
\* check_interval seconds old.
SelectedOncePerInterval ==
    [][\A c \in CycleIds :
         (cyc[c].pc = "idle" /\ cyc'[c].pc = "workers" /\ ~cyc'[c].force) =>
           \A k \in 1..Len(cyc'[c].svcs) :
             LET s == cyc'[c].svcs[k]
             IN  /\ \A d \in CycleIds \ {c} :
                      (Running(d) /\ ~cyc[d].force) => s \notin Range(cyc[d].svcs)
                 /\ \A r \in status_checks :
                      r.service_id = s => r.checked_at + services[s].check_interval <= now]_vars

\* Two non-forced invocations run at the same time and hold results of two
\* probes of the same target, both taken at the same second.
ProbedTwiceWitness ==
    /\ \A c \in CycleIds : cyc[c].pc = "workers" /\ ~cyc[c].force
    /\ \E j \in 1..Len(cyc["c1"].collected), k \in 1..Len(cyc["c2"].collected) :
         cyc["c1"].collected[j].id = cyc["c2"].collected[k].id


\* C36: when an invocation is over, every incident it opened has the 'down'
\* result of its target in the history, and every incident it resolved has
\* the 'operational' result, whatever failed during the invocation.
TransitionHasHistory ==
    NoInvocationRunning =>
      \A i \in incidents :
        /\ \E r \in status_checks : /\ r.service_id = i.service_id
                                    /\ r.status = "down"
                                    /\ r.checked_at = i.started_at
        /\ i.status = "resolved" =>
             \E r \in status_checks : /\ r.service_id = i.service_id
                                      /\ r.status = "operational"
                                      /\ r.checked_at = i.resolved_at

\* The invocation answered 500 and is over: it opened an incident for the
\* second target and appended nothing to the history.
IncidentWithoutHistoryWitness ==
    /\ NoInvocationRunning
    /\ cyc["c1"].resp = FailedResponse
    /\ \E i \in incidents : /\ i.service_id = 2
                            /\ i.started_at = now
                            /\ i.status = "investigating"
    /\ \A r \in status_checks : r.checked_at # now


\* C37: the success response is sent only when every worker of the
\* invocation is done, and once an invocation has sent its response (200 or
\* 500) no step of one of its workers starts a probe or changes incidents,
\* incident_updates or announcement_reasons.
NoWorkAfterResponse ==
    [][\A c \in CycleIds :
         /\ (cyc[c].pc # "idle" /\ cyc'[c].resp.status = 200) =>
              \A w \in DOMAIN wk[c] : wk[c][w].pc = "done"
         /\ (cyc[c].pc # "idle" /\ cyc[c].resp.status \in {200, 500} /\ wk'[c] # wk[c]) =>
              /\ tables' = tables
              /\ \A w \in DOMAIN wk'[c] :
                   wk'[c][w].pc = "probe" => (w \in DOMAIN wk[c] /\ wk[c][w].pc = "probe")]_vars

\* The invocation has answered 500 after the first worker's statement
\* rejected; the second worker is about to insert an incident.
WorkerOutlivesResponseWitness ==
    /\ cyc["c1"].pc = "workers"
    /\ cyc["c1"].resp = FailedResponse
    /\ wk["c1"][1].pc = "threw"
    /\ wk["c1"][2].pc = "insertIncident"
    /\ ENABLED InsertIncident("c1", 2)


\* C38: the resolving step of an 'operational' result for a target without
\* an active incident, and the SELECT step of a 'down' result for a target
\* with an active incident, change nothing in incidents, incident_updates
\* and announcement_reasons and end the reconciliation of the target: no
\* update or reason is written for it afterwards.
NoTransitionNoWrite ==
    [][\A c \in CycleIds, w \in Workers :
         /\ (Resolve(c, w) /\ ActiveIncidents(wk[c][w].service) = {}) =>
              /\ tables' = tables
              /\ wk'[c][w].pc \in {"done", "probe"}
              /\ Len(cyc'[c].results) = Len(cyc[c].results) + 1
         /\ (SelectActive(c, w) /\ ActiveIncidents(wk[c][w].service) # {}) =>
              /\ tables' = tables
              /\ wk'[c][w].pc \in {"done", "probe"}
              /\ Len(cyc'[c].results) = Len(cyc[c].results) + 1]_vars

\* A 'down' result was reconciled for a target whose incident was opened
\* one interval earlier: the incident and its single reason are as before.
StillDownWitness ==
    \E c \in CycleIds : \E w \in DOMAIN wk[c] :
      /\ wk[c][w].pc = "done"
      /\ wk[c][w].res.status = "down"
      /\ \E i \in incidents :
           /\ i.id = wk[c][w].incidentId
           /\ i.started_at < now
           /\ i.status = "investigating"
           /\ Cardinality(ReasonsFor(i.id)) = 1
      /\ incident_updates = {}

====
